---- MODULE Spec2Model ----
(***************************************************************************)
(* A model of the vertexvm WebAssembly interpreter (package vm): the       *)
(* instance state of type VM, instance construction (NewVM), Invoke, and   *)
(* the interpret loop with gas metering, linear memory and the frame and   *)
(* block stacks.                                                           *)
(*                                                                         *)
(* Every uint64 stack slot and every Go int that can leave the range of    *)
(* the model checker's integers is a Word: eight bytes, least significant  *)
(* first, so that 64-bit and 32-bit wrap-around, sign extension and        *)
(* little-endian memory access are computed as the Go code computes them.  *)
(*                                                                         *)
(* Go evaluates the arguments of a call once, before the call.  An         *)
(* operator with parameters p_, q_ does the same: its body is written over *)
(* p, q, bound once to the values of the arguments by                      *)
(*   CHOOSE once_ \in {(body) : p \in {p_}, q \in {q_}} : TRUE.             *)
(***************************************************************************)
EXTENDS Integers, Sequences, FiniteSets, TLC

(***************************************************************************)
(* Words: 64-bit two's complement arithmetic on byte tuples.               *)
(***************************************************************************)
Byte == 0..255

Word == [1..8 -> Byte]

Pow2(k_) ==
  CHOOSE once_ \in {(
    2^k
    ) : k \in {k_}} : TRUE

\* the eight bytes of f as an explicit tuple
Mk(f_) ==
  CHOOSE once_ \in {(
    <<f[1], f[2], f[3], f[4], f[5], f[6], f[7], f[8]>>
    ) : f \in {f_}} : TRUE

\* The word of a natural number n < 2^31.
W(n_) ==
  CHOOSE once_ \in {(
    Mk([i \in 1..8 |-> IF i <= 4 THEN (n \div (256^(i-1))) % 256 ELSE 0])
    ) : n \in {n_}} : TRUE

Zero64 == W(0)

One64 == W(1)

\* Bit k (0 = least significant) of word v.
BitOf(v_, k_) ==
  CHOOSE once_ \in {(
    (v[(k \div 8) + 1] \div Pow2(k % 8)) % 2
    ) : v \in {v_}, k \in {k_}} : TRUE

\* The word whose bit k is f[k], k \in 0..63.
FromBits(f_) ==
  CHOOSE once_ \in {(
      Mk([i \in 1..8 |->
         LET b == 8 * (i - 1)
         IN f[b] + 2 * f[b+1] + 4 * f[b+2] + 8 * f[b+3]
            + 16 * f[b+4] + 32 * f[b+5] + 64 * f[b+6] + 128 * f[b+7]])
    ) : f \in {f_}} : TRUE

\* carries of a + b + cin, byte by byte: c[i] is the carry out of byte i
AddCarry(a_, b_, cin_) ==
  CHOOSE once_ \in {(
      LET c[i \in 0..8] == IF i = 0 THEN cin ELSE (a[i] + b[i] + c[i-1]) \div 256
      IN c
    ) : a \in {a_}, b \in {b_}, cin \in {cin_}} : TRUE

AddC(a_, b_, cin_) ==
  CHOOSE once_ \in {(
      LET c == AddCarry(a, b, cin)
      IN Mk([i \in 1..8 |-> (a[i] + b[i] + c[i-1]) % 256])
    ) : a \in {a_}, b \in {b_}, cin \in {cin_}} : TRUE

\* a + b, a - b, -a modulo 2^64 (Go's uint64 and int64 arithmetic)
Add64(a_, b_) ==
  CHOOSE once_ \in {(
    AddC(a, b, 0)
    ) : a \in {a_}, b \in {b_}} : TRUE

Not64(a_) ==
  CHOOSE once_ \in {(
    Mk([i \in 1..8 |-> 255 - a[i]])
    ) : a \in {a_}} : TRUE

Sub64(a_, b_) ==
  CHOOSE once_ \in {(
    AddC(a, Not64(b), 1)
    ) : a \in {a_}, b \in {b_}} : TRUE

Neg64(a_) ==
  CHOOSE once_ \in {(
    Sub64(Zero64, a)
    ) : a \in {a_}} : TRUE

\* the int64 value n, -2^31 < n < 2^31, as a word
WS(n_) ==
  CHOOSE once_ \in {(
    IF n >= 0 THEN W(n) ELSE Neg64(W(-n))
    ) : n \in {n_}} : TRUE

\* unsigned and signed (int64) comparisons
LtU64(a_, b_) ==
  CHOOSE once_ \in {(
    AddCarry(a, Not64(b), 1)[8] = 0
    ) : a \in {a_}, b \in {b_}} : TRUE

LeU64(a_, b_) ==
  CHOOSE once_ \in {(
    ~LtU64(b, a)
    ) : a \in {a_}, b \in {b_}} : TRUE

IsNeg64(a_) ==
  CHOOSE once_ \in {(
    a[8] >= 128
    ) : a \in {a_}} : TRUE

LtS64(a_, b_) ==
  CHOOSE once_ \in {(
    IF IsNeg64(a) # IsNeg64(b) THEN IsNeg64(a) ELSE LtU64(a, b)
    ) : a \in {a_}, b \in {b_}} : TRUE

LeS64(a_, b_) ==
  CHOOSE once_ \in {(
    ~LtS64(b, a)
    ) : a \in {a_}, b \in {b_}} : TRUE

\* Go conversions uint64(uintN(v)) and uint64(intN(v))
Uint32(v_) ==
  CHOOSE once_ \in {(
    Mk([i \in 1..8 |-> IF i <= 4 THEN v[i] ELSE 0])
    ) : v \in {v_}} : TRUE

Uint16(v_) ==
  CHOOSE once_ \in {(
    Mk([i \in 1..8 |-> IF i <= 2 THEN v[i] ELSE 0])
    ) : v \in {v_}} : TRUE

Uint8(v_) ==
  CHOOSE once_ \in {(
    Mk([i \in 1..8 |-> IF i <= 1 THEN v[i] ELSE 0])
    ) : v \in {v_}} : TRUE

SignExtend(v_, nbytes_) ==
  CHOOSE once_ \in {(
      Mk([i \in 1..8 |-> IF i <= nbytes THEN v[i]
                         ELSE IF v[nbytes] >= 128 THEN 255 ELSE 0])
    ) : v \in {v_}, nbytes \in {nbytes_}} : TRUE

Int32(v_) ==
  CHOOSE once_ \in {(
    SignExtend(v, 4)
    ) : v \in {v_}} : TRUE

Int16(v_) ==
  CHOOSE once_ \in {(
    SignExtend(v, 2)
    ) : v \in {v_}} : TRUE

Int8(v_) ==
  CHOOSE once_ \in {(
    SignExtend(v, 1)
    ) : v \in {v_}} : TRUE

\* bitwise operations and shifts (Go: a shift by 64 or more gives 0)
And64(a_, b_) ==
  CHOOSE once_ \in {(
    FromBits([k \in 0..63 |-> BitOf(a, k) * BitOf(b, k)])
    ) : a \in {a_}, b \in {b_}} : TRUE

Or64(a_, b_) ==
  CHOOSE once_ \in {(
      FromBits([k \in 0..63 |-> IF BitOf(a, k) + BitOf(b, k) > 0 THEN 1 ELSE 0])
    ) : a \in {a_}, b \in {b_}} : TRUE

Shl64(a_, s_) ==
  CHOOSE once_ \in {(
    FromBits([k \in 0..63 |-> IF k >= s THEN BitOf(a, k - s) ELSE 0])
    ) : a \in {a_}, s \in {s_}} : TRUE

\* arithmetic shift right of an int64 by 1
Sar1(a_) ==
  CHOOSE once_ \in {(
    FromBits([k \in 0..63 |-> IF k = 63 THEN BitOf(a, 63) ELSE BitOf(a, k + 1)])
    ) : a \in {a_}} : TRUE

\* a fits a non-negative model integer (a < 2^31)
IsSmall(a_) ==
  CHOOSE once_ \in {(
    a[5] = 0 /\ a[6] = 0 /\ a[7] = 0 /\ a[8] = 0 /\ a[4] < 128
    ) : a \in {a_}} : TRUE

ToInt(a_) ==
  CHOOSE once_ \in {(
    a[1] + 256 * a[2] + 65536 * a[3] + 16777216 * a[4]
    ) : a \in {a_}} : TRUE

\* v shifted left by one bit, with bit 0 set to cin
Shl1(v_, cin_) ==
  CHOOSE once_ \in {(
      << (2 * v[1] + cin) % 256,
         (2 * v[2] + v[1] \div 128) % 256,
         (2 * v[3] + v[2] \div 128) % 256,
         (2 * v[4] + v[3] \div 128) % 256,
         (2 * v[5] + v[4] \div 128) % 256,
         (2 * v[6] + v[5] \div 128) % 256,
         (2 * v[7] + v[6] \div 128) % 256,
         (2 * v[8] + v[7] \div 128) % 256 >>
    ) : v \in {v_}, cin \in {cin_}} : TRUE

\* unsigned long division of a by b, b # 0: shift in the bits of a from the
\* top, subtract b whenever it fits.  One bit of it, qr = <<quotient,
\* remainder>> so far:
DivBit(a_, b_, k_, qr_) ==
  CHOOSE once_ \in {(
      IF LeU64(b, Shl1(qr[2], BitOf(a, k)))
      THEN <<Shl1(qr[1], 1), Sub64(Shl1(qr[2], BitOf(a, k)), b)>>
      ELSE <<Shl1(qr[1], 0), Shl1(qr[2], BitOf(a, k))>>
    ) : a \in {a_}, b \in {b_}, k \in {k_}, qr \in {qr_}} : TRUE

\* the eight bits of byte j (from 0) of a, the top one first
DivByte(a_, b_, j_, qr_) ==
  CHOOSE once_ \in {(
      DivBit(a, b, 8 * j,
        DivBit(a, b, 8 * j + 1,
          DivBit(a, b, 8 * j + 2,
            DivBit(a, b, 8 * j + 3,
              DivBit(a, b, 8 * j + 4,
                DivBit(a, b, 8 * j + 5,
                  DivBit(a, b, 8 * j + 6,
                    DivBit(a, b, 8 * j + 7, qr))))))))
    ) : a \in {a_}, b \in {b_}, j \in {j_}, qr \in {qr_}} : TRUE

\* the bytes j, j - 1, .., 0 of a
RECURSIVE DivStep(_, _, _, _)
DivStep(a_, b_, j_, qr_) ==
  CHOOSE once_ \in {(
      IF j < 0 THEN qr ELSE DivStep(a, b, j - 1, DivByte(a, b, j, qr))
    ) : a \in {a_}, b \in {b_}, j \in {j_}, qr \in {qr_}} : TRUE

DivU64(a_, b_) ==
  CHOOSE once_ \in {(
    DivStep(a, b, 7, <<Zero64, Zero64>>)[1]
    ) : a \in {a_}, b \in {b_}} : TRUE

RemU64(a_, b_) ==
  CHOOSE once_ \in {(
    DivStep(a, b, 7, <<Zero64, Zero64>>)[2]
    ) : a \in {a_}, b \in {b_}} : TRUE

Abs64(a_) ==
  CHOOSE once_ \in {(
    IF IsNeg64(a) THEN Neg64(a) ELSE a
    ) : a \in {a_}} : TRUE

\* Go's int64 division and remainder: truncated toward zero, the most
\* negative value divided by -1 wraps to itself (no run-time panic)
DivS64(a_, b_) ==
  CHOOSE once_ \in {(
      LET q == DivU64(Abs64(a), Abs64(b))
      IN IF IsNeg64(a) # IsNeg64(b) THEN Neg64(q) ELSE q
    ) : a \in {a_}, b \in {b_}} : TRUE

RemS64(a_, b_) ==
  CHOOSE once_ \in {(
      LET r == RemU64(Abs64(a), Abs64(b))
      IN IF IsNeg64(a) THEN Neg64(r) ELSE r
    ) : a \in {a_}, b \in {b_}} : TRUE


\* v shifted left by n whole bytes: v * 2^(8n) modulo 2^64
ShlBytes(v_, n_) ==
  CHOOSE once_ \in {(
    Mk([i \in 1..8 |-> IF i > n THEN v[i - n] ELSE 0])
    ) : v \in {v_}, n \in {n_}} : TRUE

\* v shifted right by n whole bytes: v / 2^(8n), v unsigned
ShrBytes(v_, n_) ==
  CHOOSE once_ \in {(
    Mk([i \in 1..8 |-> IF i + n <= 8 THEN v[i + n] ELSE 0])
    ) : v \in {v_}, n \in {n_}} : TRUE

AllOnes64 == Not64(Zero64)

MinInt32Word == <<0, 0, 0, 128, 0, 0, 0, 0>>

MaxInt32Word == <<255, 255, 255, 127, 0, 0, 0, 0>>

MinInt64Word == <<0, 0, 0, 0, 0, 0, 0, 128>>

MaxInt64Word == <<255, 255, 255, 255, 255, 255, 255, 127>>

MaxUint32Word == <<255, 255, 255, 255, 0, 0, 0, 0>>

(***************************************************************************)
(* package leb128                                                          *)
(***************************************************************************)
RECURSIVE lebLoop(_, _, _, _, _)
lebLoop(b_, i_, maxbit_, bytecnt_, result_) ==
  CHOOSE once_ \in {(
      IF i > Len(b) THEN [n |-> bytecnt, val |-> result, err |-> FALSE]
      ELSE LET cur  == b[i]
               res2 == Or64(result, Shl64(W(cur % 128), 7 * bytecnt))
               cnt2 == bytecnt + 1
           IN IF cur < 128 THEN [n |-> cnt2, val |-> res2, err |-> FALSE]
              ELSE IF cnt2 > (maxbit + 7 - 1) \div 7
                   THEN [n |-> 0, val |-> Zero64, err |-> TRUE]
                   ELSE lebLoop(b, i + 1, maxbit, cnt2, res2)
    ) : b \in {b_}, i \in {i_}, maxbit \in {maxbit_}, bytecnt \in {bytecnt_}, result \in {result_}} : TRUE

\* the sign extension at the end of leb128.Read, r the result of the loop
\* and sign the mask -1 << shift
signExtend(r_, sign_, hasSign_) ==
  CHOOSE once_ \in {(
      IF ~r.err /\ hasSign /\ And64(Sar1(sign), r.val) # Zero64
      THEN [r EXCEPT !.val = Or64(r.val, sign)]
      ELSE r
    ) : r \in {r_}, sign \in {sign_}, hasSign \in {hasSign_}} : TRUE

lebSign(r_, hasSign_) ==
  CHOOSE once_ \in {(
    signExtend(r, Shl64(AllOnes64, 7 * r.n), hasSign)
    ) : r \in {r_}, hasSign \in {hasSign_}} : TRUE

\* leb128.Read: the number of bytes consumed, the int64 result and whether
\* an error is returned
Read(b_, maxbit_, hasSign_) ==
  CHOOSE once_ \in {(
      IF maxbit > 64 THEN [n |-> 0, val |-> Zero64, err |-> TRUE]
      ELSE lebSign(lebLoop(b, 1, maxbit, 0, Zero64), hasSign)
    ) : b \in {b_}, maxbit \in {maxbit_}, hasSign \in {hasSign_}} : TRUE

(***************************************************************************)
(* Program constants of package vm, the opcode bytes and the value types.  *)
(***************************************************************************)
StackSize == 65536

MaxFrames == 1024

MaxBlocks == 1024

MaxBrTableSize == 65536

wasmPageSize == 65536

\* wasm.Magic 0x6d736100 and wasm.Version 1 as the four bytes
\* binary.LittleEndian.Uint32 reads them from
Magic == <<0, 97, 115, 109>>

Version == <<1, 0, 0, 0>>

FuncTypeForm == 96

\* maxSize / wasmPageSize with maxSize = math.MaxUint32
maxSizePages == 65535

ValueTypeI32 == 127

ValueTypeI64 == 126

ValueTypeF32 == 125

ValueTypeF64 == 124

BlockTypeEmpty == 64

typeBlock == 1

typeLoop == 2

typeIf == 3

\* package opcode: the opcode bytes this model executes
Op ==
  [Unreachable |-> 0, Nop |-> 1, Block |-> 2, Loop |-> 3, If |-> 4,
   Else |-> 5, End |-> 11, Br |-> 12, BrIf |-> 13, BrTable |-> 14,
   Return |-> 15, Call |-> 16, CallIndirect |-> 17, Drop |-> 26, Select |-> 27, GetLocal |-> 32,
   SetLocal |-> 33, TeeLocal |-> 34, GetGlobal |-> 35, SetGlobal |-> 36,
   I32Load |-> 40, I64Load |-> 41, F32Load |-> 42, F64Load |-> 43,
   I32Load8S |-> 44, I32Load8U |-> 45, I32Load16S |-> 46,
   I32Load16U |-> 47, I64Load8S |-> 48, I64Load8U |-> 49,
   I64Load16S |-> 50, I64Load16U |-> 51, I64Load32S |-> 52,
   I64Load32U |-> 53, I32Store |-> 54, I64Store |-> 55, F32Store |-> 56,
   F64Store |-> 57, I32Store8 |-> 58, I32Store16 |-> 59, I64Store8 |-> 60,
   I64Store16 |-> 61, I64Store32 |-> 62, MemorySize |-> 63,
   MemoryGrow |-> 64, I32Const |-> 65, I64Const |-> 66, F32Const |-> 67,
   F64Const |-> 68, I32Eqz |-> 69,
   I32Eq |-> 70, I32Ne |-> 71, I32LtS |-> 72, I32LtU |-> 73,
   I32Add |-> 106, I32Sub |-> 107, I32DivS |-> 109, I32DivU |-> 110,
   I32RemS |-> 111, I32RemU |-> 112, I64Add |-> 124, I64Sub |-> 125,
   I64DivS |-> 127, I64DivU |-> 128, I64RemS |-> 129, I64RemU |-> 130,
   F32Abs |-> 139, F32Neg |-> 140, F32Ceil |-> 141, F32Floor |-> 142,
   F32Trunc |-> 143, F32Nearest |-> 144, F32Sqrt |-> 145, F32Add |-> 146,
   F32Sub |-> 147, F32Mul |-> 148, F32Div |-> 149, F32Min |-> 150,
   F32Max |-> 151, F32Copysign |-> 152, F64Abs |-> 153, F64Neg |-> 154,
   F64Ceil |-> 155, F64Floor |-> 156, F64Trunc |-> 157, F64Nearest |-> 158,
   F64Sqrt |-> 159, F64Add |-> 160, F64Sub |-> 161, F64Mul |-> 162,
   F64Div |-> 163, F64Min |-> 164, F64Max |-> 165, F64Copysign |-> 166,
   I32TruncSF32 |-> 168, I32TruncUF32 |-> 169, I32TruncSF64 |-> 170,
   I32TruncUF64 |-> 171, I64TruncSF32 |-> 174, I64TruncUF32 |-> 175,
   I64TruncSF64 |-> 176, I64TruncUF64 |-> 177, ITruncSatF |-> 252 ]

LoadOps == Op.I32Load..Op.I64Load32U

StoreOps == Op.I32Store..Op.I64Store32

F32Ops == Op.F32Abs..Op.F32Copysign

F64Ops == Op.F64Abs..Op.F64Copysign

FloatBinops ==
  (Op.F32Add..Op.F32Max) \cup (Op.F64Add..Op.F64Max)

FloatUnops ==
  (Op.F32Ceil..Op.F32Sqrt) \cup (Op.F64Ceil..Op.F64Sqrt)

TruncOps ==
  (Op.I32TruncSF32..Op.I32TruncUF64) \cup (Op.I64TruncSF32..Op.I64TruncUF64)

\* opcode.Opcode.MemAccessSize: the number of bytes a load or store touches
MemAccessSize(op_) ==
  CHOOSE once_ \in {(
      IF op \in {Op.I64Load, Op.F64Load, Op.I64Store, Op.F64Store} THEN 8
      ELSE IF op \in {Op.I32Load, Op.F32Load, Op.I64Load32S, Op.I64Load32U,
                      Op.I32Store, Op.F32Store, Op.I64Store32} THEN 4
      ELSE IF op \in {Op.I32Load16S, Op.I32Load16U, Op.I64Load16S, Op.I64Load16U,
                      Op.I32Store16, Op.I64Store16} THEN 2
      ELSE 1
    ) : op \in {op_}} : TRUE

\* the errors: ExecErrors are raised by panic and recovered by Invoke, the
\* others are returned; RuntimePanic stands for a Go run-time error
\* (index or slice bounds out of range, nil dereference), which Invoke's
\* recover re-panics
NoError == "nil"

ExecErrors ==
  { "invalid break recover", "too many br_table targets",
    "integer divide by zero", "invalid conversion to integer",
    "integer overflow", "invalid break depth",
    "cannot break out of current function", "indirect call type mismatch",
    "no matching If for Else block", "out of bounds table access",
    "out of bounds memory access", "unknown opcode",
    "unknown block return type", "unsigned leb overflow",
    "call stack overflow", "frame stack overflow", "block stack overflow",
    "call stack underflow", "no frame to pop",
    "cannot find matching block open", "unreachable" }

ErrFuncNotFound == "func not found at index"

ErrOutOfGas == "out of gas"

ErrWrongNumberOfArgs == "wrong number of arguments"

RuntimePanic == "runtime error"


(***************************************************************************)
(* The decoded modules the instances are built from (wasm.Module after     *)
(* ReadModule): host function imports, the local functions with their      *)
(* code bytes (Code.Exprs, the body without its final end byte), the       *)
(* memory limits, the bytes of the data segments, the global initialisers  *)
(* and the start function.  Function indices count the imports first.      *)
(***************************************************************************)
I32 == ValueTypeI32

I64 == ValueTypeI64

Fn(params, results, numLocals, exprs) ==
  [ParamTypes |-> params, ReturnTypes |-> results, NumLocals |-> numLocals,
   Exprs |-> exprs]

NoLimits == [Flag |-> 0, Min |-> 0, Max |-> 0]

\* get_local 0; get_local 1; <op>
BinopBody(op) == <<32, 0, 32, 1, op>>

\* i32 and i64 division and remainder; no memory section
ArithModule ==
  [Imports |-> <<>>,
   Funcs |-> << Fn(<<I32, I32>>, <<I32>>, 0, BinopBody(Op.I32DivS)),
                Fn(<<I32, I32>>, <<I32>>, 0, BinopBody(Op.I32DivU)),
                Fn(<<I32, I32>>, <<I32>>, 0, BinopBody(Op.I32RemS)),
                Fn(<<I32, I32>>, <<I32>>, 0, BinopBody(Op.I32RemU)),
                Fn(<<I64, I64>>, <<I64>>, 0, BinopBody(Op.I64DivS)),
                Fn(<<I64, I64>>, <<I64>>, 0, BinopBody(Op.I64DivU)),
                Fn(<<I64, I64>>, <<I64>>, 0, BinopBody(Op.I64RemS)),
                Fn(<<I64, I64>>, <<I64>>, 0, BinopBody(Op.I64RemU)) >>,
   Types |-> <<>>, Tables |-> <<>>,
   HasMem |-> FALSE, Limits |-> NoLimits, Data |-> <<>>,
   Globals |-> <<>>, Start |-> -1]

\* loads and stores on a one-page memory with a data segment at 0
MemModule ==
  [Imports |-> <<>>,
   Funcs |-> <<
     \* 0: get_local 0; i32.load align=2 offset=0
     Fn(<<I32>>, <<I32>>, 0, <<32, 0, Op.I32Load, 2, 0>>),
     \* 1: i32.const -1; i32.load align=2 offset=1
     Fn(<<>>, <<I32>>, 0, <<Op.I32Const, 127, Op.I32Load, 2, 1>>),
     \* 2: i32.const -1; i32.load align=2 offset=0
     Fn(<<>>, <<I32>>, 0, <<Op.I32Const, 127, Op.I32Load, 2, 0>>),
     \* 3: get_local 0; get_local 1; i32.store align=2 offset=0
     Fn(<<I32, I32>>, <<>>, 0, <<32, 0, 32, 1, Op.I32Store, 2, 0>>),
     \* 4: get_local 0; get_local 1; i64.store align=3 offset=4
     Fn(<<I32, I64>>, <<>>, 0, <<32, 0, 32, 1, Op.I64Store, 3, 4>>),
     \* 5: i32.const -1; i32.const 9; i32.store8 align=0 offset=2
     Fn(<<>>, <<>>, 0, <<Op.I32Const, 127, Op.I32Const, 9, Op.I32Store8, 0, 2>>),
     \* 6: get_local 0; i32.load8_s align=0 offset=0
     Fn(<<I32>>, <<I32>>, 0, <<32, 0, Op.I32Load8S, 0, 0>>),
     \* 7: get_local 0; i64.load32_s align=2 offset=0
     Fn(<<I32>>, <<I64>>, 0, <<32, 0, Op.I64Load32S, 2, 0>>),
     \* 8: get_local 0; i64.load align=3 offset=0
     Fn(<<I32>>, <<I64>>, 0, <<32, 0, Op.I64Load, 3, 0>>),
     \* 9: get_local 0; get_local 1; i32.store16 align=1 offset=0
     Fn(<<I32, I32>>, <<>>, 0, <<32, 0, 32, 1, Op.I32Store16, 1, 0>>),
     \* 10: get_local 0; i32.load16_u align=1 offset=0
     Fn(<<I32>>, <<I32>>, 0, <<32, 0, Op.I32Load16U, 1, 0>>) >>,
   Types |-> <<>>, Tables |-> <<>>,
   HasMem |-> TRUE, Limits |-> [Flag |-> 0, Min |-> 1, Max |-> 0],
   Data |-> <<1, 2, 3, 200, 5, 6, 7, 8>>,
   Globals |-> <<>>, Start |-> -1]

GrowFuncs ==
  << \* 0: get_local 0; memory.grow
     Fn(<<I32>>, <<I32>>, 0, <<32, 0, Op.MemoryGrow, 0>>),
     \* 1: memory.size
     Fn(<<>>, <<I32>>, 0, <<Op.MemorySize, 0>>),
     \* 2: i32.const -1; memory.grow
     Fn(<<>>, <<I32>>, 0, <<Op.I32Const, 127, Op.MemoryGrow, 0>>) >>

\* memory.grow and memory.size, one page and no declared maximum
GrowModule ==
  [Imports |-> <<>>, Funcs |-> GrowFuncs, Types |-> <<>>, Tables |-> <<>>,
   HasMem |-> TRUE, Limits |-> [Flag |-> 0, Min |-> 1, Max |-> 0],
   Data |-> <<7>>, Globals |-> <<>>, Start |-> -1]

\* the same with a declared maximum of three pages
GrowMaxModule ==
  [Imports |-> <<>>, Funcs |-> GrowFuncs, Types |-> <<>>, Tables |-> <<>>,
   HasMem |-> TRUE, Limits |-> [Flag |-> 1, Min |-> 1, Max |-> 3],
   Data |-> <<7>>, Globals |-> <<>>, Start |-> -1]

\* limits the decoder accepts although min > max (readLimits checks only
\* the flag byte)
MinOverMaxModule ==
  [Imports |-> <<>>, Funcs |-> GrowFuncs, Types |-> <<>>, Tables |-> <<>>,
   HasMem |-> TRUE, Limits |-> [Flag |-> 1, Min |-> 2, Max |-> 1],
   Data |-> <<>>, Globals |-> <<>>, Start |-> -1]

\* one page and a data segment of one byte at offset 65536: the decoder
\* leaves 65537 bytes in LinearMemoryIndexSpace[0]
DataOverModule ==
  [Imports |-> <<>>, Funcs |-> GrowFuncs, Types |-> <<>>, Tables |-> <<>>,
   HasMem |-> TRUE, Limits |-> [Flag |-> 0, Min |-> 1, Max |-> 0],
   Data |-> [i \in 1..(wasmPageSize + 1) |-> IF i > wasmPageSize THEN 7 ELSE 0],
   Globals |-> <<>>, Start |-> -1]

\* control flow, locals, globals, calls, a host import and a start function;
\* function 0 is the import env.add, the local functions start at index 1
ControlModule ==
  [Imports |-> << [module |-> "env", name |-> "add",
                   ParamTypes |-> <<I32, I32>>, ReturnTypes |-> <<I32>>] >>,
   Funcs |-> <<
     \* 1: loop; br 0; end
     Fn(<<>>, <<>>, 0, <<Op.Loop, 64, Op.Br, 0, Op.End>>),
     \* 2: call 2
     Fn(<<>>, <<>>, 0, <<Op.Call, 2>>),
     \* 3: get_global 0; i32.const 1; i32.add; set_global 0; get_global 0
     Fn(<<>>, <<I32>>, 0,
        <<Op.GetGlobal, 0, Op.I32Const, 1, Op.I32Add, Op.SetGlobal, 0,
          Op.GetGlobal, 0>>),
     \* 4: get_local 0; if (result i32) i32.const 5 else i32.const 7 end
     Fn(<<I32>>, <<I32>>, 0,
        <<Op.GetLocal, 0, Op.If, 127, Op.I32Const, 5, Op.Else, Op.I32Const, 7,
          Op.End>>),
     \* 5: block; get_local 0; br_if 0; i32.const 3; set_local 1; end;
     \*    get_local 1; i32.const 1; i32.const 2; call 0; i32.add
     Fn(<<I32>>, <<I32>>, 1,
        <<Op.Block, 64, Op.GetLocal, 0, Op.BrIf, 0, Op.I32Const, 3,
          Op.SetLocal, 1, Op.End, Op.GetLocal, 1, Op.I32Const, 1, Op.I32Const, 2,
          Op.Call, 0, Op.I32Add>>),
     \* 6: get_local 0; tee_local 0; drop; i32.const 1; i32.const 2;
     \*    get_local 0; select; return; unreachable
     Fn(<<I32>>, <<I32>>, 0,
        <<Op.GetLocal, 0, Op.TeeLocal, 0, Op.Drop, Op.I32Const, 1, Op.I32Const, 2,
          Op.GetLocal, 0, Op.Select, Op.Return, Op.Unreachable>>),
     \* 7: nop; unreachable
     Fn(<<>>, <<>>, 0, <<Op.Nop, Op.Unreachable>>),
     \* 8: get_local 0; call 4; i32.eqz
     Fn(<<I32>>, <<I32>>, 0, <<Op.GetLocal, 0, Op.Call, 4, Op.I32Eqz>>),
     \* 9 (start): i32.const 42; set_global 0
     Fn(<<>>, <<>>, 0, <<Op.I32Const, 42, Op.SetGlobal, 0>>) >>,
   Types |-> <<>>, Tables |-> <<>>,
   HasMem |-> FALSE, Limits |-> NoLimits, Data |-> <<>>,
   Globals |-> << [vt |-> I32, v |-> -1] >>, Start |-> 9]

\* calls of host imports and of a local function without a result.
\* Function 0 is the import env.add, function 1 the import
\* spectest.print_i32 of type (i32) -> (), the local functions start at
\* index 2
HostModule ==
  [Imports |-> << [module |-> "env", name |-> "add",
                   ParamTypes |-> <<I32, I32>>, ReturnTypes |-> <<I32>>],
                  [module |-> "spectest", name |-> "print_i32",
                   ParamTypes |-> <<I32>>, ReturnTypes |-> <<>>] >>,
   Funcs |-> <<
     \* 2: i32.const 9; i32.const 4; call 1
     Fn(<<>>, <<I32>>, 0, <<Op.I32Const, 9, Op.I32Const, 4, Op.Call, 1>>),
     \* 3: i32.const 1; i32.const 2; call 0
     Fn(<<>>, <<I32>>, 0, <<Op.I32Const, 1, Op.I32Const, 2, Op.Call, 0>>),
     \* 4: nop
     Fn(<<I32>>, <<>>, 0, <<Op.Nop>>),
     \* 5: i32.const 6; i32.const 8; call 4
     Fn(<<>>, <<I32>>, 0, <<Op.I32Const, 6, Op.I32Const, 8, Op.Call, 4>>) >>,
   Types |-> <<>>, Tables |-> <<>>,
   HasMem |-> FALSE, Limits |-> NoLimits, Data |-> <<>>,
   Globals |-> <<>>, Start |-> -1]

\* a function type of the type section
Sig(params, results) == [ParamTypes |-> params, ReturnTypes |-> results]

\* branches, return, if/else and indirect calls.  Function 0 is the import
\* env.add, the local functions start at index 1; the table holds the
\* import, a function of the call site's type, a function with another
\* result count and a function with another result type
BranchModule ==
  [Imports |-> << [module |-> "env", name |-> "add",
                   ParamTypes |-> <<I32, I32>>, ReturnTypes |-> <<I32>>] >>,
   Funcs |-> <<
     \* 1: i32.const -1
     Fn(<<>>, <<I32>>, 0, <<Op.I32Const, 127>>),
     \* 2: unreachable; i64.const -1
     Fn(<<>>, <<I64>>, 0, <<Op.Unreachable, Op.I64Const, 127>>),
     \* 3: nop
     Fn(<<>>, <<>>, 0, <<Op.Nop>>),
     \* 4: get_local 0; call_indirect (type 1)
     Fn(<<I32>>, <<I32>>, 1, <<Op.GetLocal, 0, Op.CallIndirect, 1, 0>>),
     \* 5: i32.const -1; call_indirect (type 1)
     Fn(<<>>, <<I32>>, 0, <<Op.I32Const, 127, Op.CallIndirect, 1, 0>>),
     \* 6: block (result i32); loop; i32.const 7; get_local 0; br_if 1; drop;
     \*    block; end; end; i32.const 9; end
     Fn(<<I32>>, <<I32>>, 0,
        <<Op.Block, 127, Op.Loop, 64, Op.I32Const, 7, Op.GetLocal, 0,
          Op.BrIf, 1, Op.Drop, Op.Block, 64, Op.End, Op.End, Op.I32Const, 9,
          Op.End>>),
     \* 7: block (result i32); get_local 0; if; i32.const 1; i32.const 2;
     \*    br 1; end; i32.const 3; end
     Fn(<<I32>>, <<I32>>, 0,
        <<Op.Block, 127, Op.GetLocal, 0, Op.If, 64, Op.I32Const, 1,
          Op.I32Const, 2, Op.Br, 1, Op.End, Op.I32Const, 3, Op.End>>),
     \* 8: block; get_local 0; if; get_local 0; br_table 1 0 (default 1);
     \*    end; end; i32.const 9
     Fn(<<I32>>, <<I32>>, 0,
        <<Op.Block, 64, Op.GetLocal, 0, Op.If, 64, Op.GetLocal, 0,
          Op.BrTable, 2, 1, 0, 1, Op.End, Op.End, Op.I32Const, 9>>),
     \* 9: loop; block; get_local 0; i32.const 1; i32.sub; tee_local 0;
     \*    br_if 1; end; end; get_local 0
     Fn(<<I32>>, <<I32>>, 0,
        <<Op.Loop, 64, Op.Block, 64, Op.GetLocal, 0, Op.I32Const, 1,
          Op.I32Sub, Op.TeeLocal, 0, Op.BrIf, 1, Op.End, Op.End,
          Op.GetLocal, 0>>),
     \* 10: block; get_local 0; br_table 2 (default 1); end
     Fn(<<I32>>, <<>>, 0,
        <<Op.Block, 64, Op.GetLocal, 0, Op.BrTable, 1, 2, 1, Op.End>>),
     \* 11: block; i32.const 0; call 10; end
     Fn(<<>>, <<>>, 0, <<Op.Block, 64, Op.I32Const, 0, Op.Call, 10, Op.End>>),
     \* 12: block; loop; get_local 0; return; end; end; i32.const 3
     Fn(<<I32>>, <<I32>>, 0,
        <<Op.Block, 64, Op.Loop, 64, Op.GetLocal, 0, Op.Return, Op.End,
          Op.End, Op.I32Const, 3>>),
     \* 13: block (result i32); get_local 0; call 12; end
     Fn(<<I32>>, <<I32>>, 0,
        <<Op.Block, 127, Op.GetLocal, 0, Op.Call, 12, Op.End>>),
     \* 14: get_local 0; if; i32.const 1; i32.const 2; return; end;
     \*     i32.const 3
     Fn(<<I32>>, <<I32>>, 0,
        <<Op.GetLocal, 0, Op.If, 64, Op.I32Const, 1, Op.I32Const, 2,
          Op.Return, Op.End, Op.I32Const, 3>>),
     \* 15: block (result i32); get_local 0; return; end; drop; i64.const 0
     Fn(<<I64>>, <<I64>>, 0,
        <<Op.Block, 127, Op.GetLocal, 0, Op.Return, Op.End, Op.Drop,
          Op.I64Const, 0>>),
     \* 16: get_local 0; if (result i32); block (result i32); i32.const 1;
     \*     end; else; get_local 0; if (result i32); i32.const 2; else;
     \*     i32.const 6; end; end
     Fn(<<I32>>, <<I32>>, 0,
        <<Op.GetLocal, 0, Op.If, 127, Op.Block, 127, Op.I32Const, 1, Op.End,
          Op.Else, Op.GetLocal, 0, Op.If, 127, Op.I32Const, 2, Op.Else,
          Op.I32Const, 6, Op.End, Op.End>>),
     \* 17: get_local 0; if (result i32); i32.const 1; i32.const 2; br 0;
     \*     else; i32.const 7; end
     Fn(<<I32>>, <<I32>>, 0,
        <<Op.GetLocal, 0, Op.If, 127, Op.I32Const, 1, Op.I32Const, 2,
          Op.Br, 0, Op.Else, Op.I32Const, 7, Op.End>>),
     \* 18: get_local 0; br_if 1
     Fn(<<I32>>, <<>>, 0, <<Op.GetLocal, 0, Op.BrIf, 1>>),
     \* 19: br 1
     Fn(<<>>, <<>>, 0, <<Op.Br, 1>>),
     \* 20: i32.const 4; get_local 0; if; return; else; nop; end; drop;
     \*     i32.const 8
     Fn(<<I32>>, <<I32>>, 0,
        <<Op.I32Const, 4, Op.GetLocal, 0, Op.If, 64, Op.Return, Op.Else,
          Op.Nop, Op.End, Op.Drop, Op.I32Const, 8>>),
     \* 21: get_local 0; br_table with 65537 listed targets (the count is
     \*     the LEB128 bytes 0x81 0x80 0x04)
     Fn(<<I32>>, <<>>, 0, <<Op.GetLocal, 0, Op.BrTable, 129, 128, 4>>) >>,
   Types |-> << Sig(<<I32, I32>>, <<I32>>), Sig(<<>>, <<I32>>),
                Sig(<<>>, <<>>) >>,
   Tables |-> << <<0, 1, 3, 2>> >>,
   HasMem |-> FALSE, Limits |-> NoLimits, Data |-> <<>>,
   Globals |-> <<>>, Start |-> -1]

F32 == ValueTypeF32

F64 == ValueTypeF64

\* get_local 0; <op>
UnopBody(op) == <<32, 0, op>>

\* the body of the function that applies the f32 or f64 operator op
FloatBody(op) ==
  IF op \in FloatBinops \cup {Op.F32Copysign, Op.F64Copysign}
  THEN BinopBody(op) ELSE UnopBody(op)

FloatFn(t, op) ==
  IF op \in FloatBinops \cup {Op.F32Copysign, Op.F64Copysign}
  THEN Fn(<<t, t>>, <<t>>, 0, FloatBody(op))
  ELSE Fn(<<t>>, <<t>>, 0, FloatBody(op))

\* block; br 0; <skipped>; end; i32.const 7
Unwound(skipped) == <<Op.Block, 64, Op.Br, 0>> \o skipped \o <<Op.End, Op.I32Const, 7>>

\* instructions with immediates whose bytes are opcodes themselves:
\* f32.const 0x0b0b0b0b; f64.const 0x0505050505050505; i64.const -1 in two
\* bytes; i32.const 11; i32.load align=2 offset=11; i64.store align=11
\* offset=5; memory.size; memory.grow; call_indirect (type 11);
\* br_table 11 5 (default 11); call 11; get_local 11; br_if 5; block; end
WithImmediates ==
  << Op.F32Const, 11, 11, 11, 11,
     Op.F64Const, 5, 5, 5, 5, 5, 5, 5, 5,
     Op.I64Const, 255, 127, Op.I32Const, 11,
     Op.I32Load, 2, 11, Op.I64Store, 11, 5,
     Op.MemorySize, 0, Op.MemoryGrow, 0,
     Op.CallIndirect, 11, 0,
     Op.BrTable, 2, 11, 5, 11,
     Op.Call, 11, Op.GetLocal, 11, Op.BrIf, 5,
     Op.Block, 64, Op.End >>

\* f64.const 0; the trunc_sat sub-opcode subop; drop
SatSkipped(subop) ==
  <<Op.F64Const, 0, 0, 0, 0, 0, 0, 0, 0, Op.ITruncSatF, subop, Op.Drop>>

\* the float module: functions 0..13 apply the f32 operators abs..copysign
\* to their parameters, 14..27 the f64 operators, 28..31 i32.trunc_{s,u}_f32
\* and _f64, 32..35 i64.trunc, 36..43 the trunc_sat sub-opcodes 0..7; 44
\* leaves a block by br 0 past instructions with immediates, 45..52 past a
\* trunc_sat with the sub-opcodes 0..7; 53 is f32.const 1.5; drop;
\* f64.const -2
FloatModule ==
  [Imports |-> <<>>,
   Funcs |->
     [i \in 1..54 |->
        IF i <= 14 THEN FloatFn(F32, Op.F32Abs + i - 1)
        ELSE IF i <= 28 THEN FloatFn(F64, Op.F64Abs + i - 15)
        ELSE IF i <= 30 THEN Fn(<<F32>>, <<I32>>, 0, UnopBody(Op.I32TruncSF32 + i - 29))
        ELSE IF i <= 32 THEN Fn(<<F64>>, <<I32>>, 0, UnopBody(Op.I32TruncSF32 + i - 29))
        ELSE IF i <= 34 THEN Fn(<<F32>>, <<I64>>, 0, UnopBody(Op.I64TruncSF32 + i - 33))
        ELSE IF i <= 36 THEN Fn(<<F64>>, <<I64>>, 0, UnopBody(Op.I64TruncSF32 + i - 33))
        ELSE IF i <= 44
        THEN Fn(<<IF i - 37 \in {0, 1, 4, 5} THEN F32 ELSE F64>>,
                <<IF i - 37 < 4 THEN I32 ELSE I64>>, 0,
                <<32, 0, Op.ITruncSatF, i - 37>>)
        ELSE IF i = 45 THEN Fn(<<>>, <<I32>>, 0, Unwound(WithImmediates))
        ELSE IF i <= 53 THEN Fn(<<>>, <<I32>>, 0, Unwound(SatSkipped(i - 46)))
        ELSE Fn(<<>>, <<F64>>, 0,
                <<Op.F32Const, 0, 0, 192, 63, Op.Drop,
                  Op.F64Const, 0, 0, 0, 0, 0, 0, 0, 192>>)],
   Types |-> <<>>, Tables |-> <<>>,
   HasMem |-> FALSE, Limits |-> NoLimits, Data |-> <<>>,
   Globals |-> <<>>, Start |-> -1]

\* functions that leave values on the stack when they branch, that end or
\* trap with blocks open, and that are invoked after a trap:
\*  0 leaves a block by br 0 with a value above the one pushed before it,
\*  1 branches back to its loop header with a value left on the stack,
\*  2 calls 3 in a block, 3 has an end without a block of its own,
\*  4 has an if with two else,
\*  5 traps before its last instruction, 6 returns 5,
\*  7 ends with its block open, 8 calls 7 in a block, 9 has an empty body,
\*  10 branches to the end of its if with two values
StackModule ==
  [Imports |-> <<>>,
   Funcs |-> <<
     \* 0: i32.const 9; block; i32.const 1; br 0; end
     Fn(<<>>, <<I32>>, 0,
        <<Op.I32Const, 9, Op.Block, 64, Op.I32Const, 1, Op.Br, 0, Op.End>>),
     \* 1: i32.const 9; loop; i32.const 7; get_local 0; i32.const 1;
     \*    i32.sub; tee_local 0; br_if 0; drop; end
     Fn(<<I32>>, <<I32>>, 0,
        <<Op.I32Const, 9, Op.Loop, 64, Op.I32Const, 7, Op.GetLocal, 0,
          Op.I32Const, 1, Op.I32Sub, Op.TeeLocal, 0, Op.BrIf, 0, Op.Drop,
          Op.End>>),
     \* 2: block; call 3; end
     Fn(<<>>, <<>>, 0, <<Op.Block, 64, Op.Call, 3, Op.End>>),
     \* 3: nop; end; nop
     Fn(<<>>, <<>>, 0, <<Op.Nop, Op.End, Op.Nop>>),
     \* 4: get_local 0; if; nop; else; nop; else; nop; end
     Fn(<<I32>>, <<>>, 0,
        <<Op.GetLocal, 0, Op.If, 64, Op.Nop, Op.Else, Op.Nop, Op.Else,
          Op.Nop, Op.End>>),
     \* 5: unreachable; i32.const 33
     Fn(<<>>, <<I32>>, 0, <<Op.Unreachable, Op.I32Const, 33>>),
     \* 6: i32.const 5
     Fn(<<>>, <<I32>>, 0, <<Op.I32Const, 5>>),
     \* 7: block; nop
     Fn(<<>>, <<>>, 0, <<Op.Block, 64, Op.Nop>>),
     \* 8: block; call 7; end
     Fn(<<>>, <<>>, 0, <<Op.Block, 64, Op.Call, 7, Op.End>>),
     \* 9: no instruction
     Fn(<<>>, <<>>, 0, <<>>),
     \* 10: get_local 0; if (result i32); i32.const 1; i32.const 2; br 0;
     \*     else; i32.const 7; end
     Fn(<<I32>>, <<I32>>, 0,
        <<Op.GetLocal, 0, Op.If, 127, Op.I32Const, 1, Op.I32Const, 2,
          Op.Br, 0, Op.Else, Op.I32Const, 7, Op.End>>) >>,
   Types |-> <<>>, Tables |-> <<>>,
   HasMem |-> FALSE, Limits |-> NoLimits, Data |-> <<>>,
   Globals |-> <<>>, Start |-> -1]

\* functions that reach the capacities of the three stacks: 0 has StackSize
\* locals and pushes one value, 1 has StackSize + 1 locals, 2 calls itself,
\* 3 calls itself inside two blocks, 4 calls 1, 5 has three locals and
\* returns 2
BoundsModule ==
  [Imports |-> <<>>,
   Funcs |-> <<
     \* 0: i32.const 1
     Fn(<<>>, <<I32>>, StackSize, <<Op.I32Const, 1>>),
     \* 1: nop
     Fn(<<>>, <<>>, StackSize + 1, <<Op.Nop>>),
     \* 2: call 2
     Fn(<<>>, <<>>, 0, <<Op.Call, 2>>),
     \* 3: block; block; call 3; end; end
     Fn(<<>>, <<>>, 0,
        <<Op.Block, 64, Op.Block, 64, Op.Call, 3, Op.End, Op.End>>),
     \* 4: call 1
     Fn(<<>>, <<>>, 0, <<Op.Call, 1>>),
     \* 5: i32.const 2
     Fn(<<>>, <<I32>>, 3, <<Op.I32Const, 2>>) >>,
   Types |-> <<>>, Tables |-> <<>>,
   HasMem |-> FALSE, Limits |-> NoLimits, Data |-> <<>>,
   Globals |-> <<>>, Start |-> -1]

Modules ==
  [arith |-> ArithModule, mem |-> MemModule, grow |-> GrowModule,
   growmax |-> GrowMaxModule, minovermax |-> MinOverMaxModule,
   dataover |-> DataOverModule, host |-> HostModule,
   control |-> ControlModule, branch |-> BranchModule]

ArithIdx == "arith"

MemIdx == "mem"

GrowIdx == "grow"

GrowMaxIdx == "growmax"

MinOverMaxIdx == "minovermax"

DataOverIdx == "dataover"

HostIdx == "host"

ControlIdx == "control"

BranchIdx == "branch"


(***************************************************************************)
(* The instance state (type VM) and the position of its caller.            *)
(*   Module: the decoded module the instance runs (vm.Module).            *)
(*   pc: "new" before NewVM, "failed" when NewVM returned an error,        *)
(*       "idle" between invocations, "running" inside interpret,           *)
(*       "panicked" when a run-time panic left Invoke, "exited" after      *)
(*       log.Fatal.                                                        *)
(*   starting: the running invocation is NewVM's call of the start         *)
(*       function.                                                         *)
(*   invocation: the function index of the latest invocation and whether   *)
(*       the instance was idle (sp = 0, no frames, no blocks) when it      *)
(*       was made.                                                         *)
(*   stack is the slice vm.stack up to the highest slot written so far     *)
(*   (the slots above are still zero); blocks and frames hold the entries  *)
(*   below blocksIndex and framesIndex.                                    *)
(***************************************************************************)
VARIABLES Module, gasPolicy, gas, stack, sp, frames, blocks, blocksIndex,
          breakDepth, memory, globals, pc, starting, ret, err, invokes,
          invocation, transfer, decoder, leb

vars == << Module, gasPolicy, gas, stack, sp, frames, blocks, blocksIndex,
           breakDepth, memory, globals, pc, starting, ret, err, invokes,
           invocation, transfer, decoder, leb >>

TheModule == Module

\* transfer: the last MemRead or MemWrite call of the embedder with what it
\* returned
NoTransfer == [op |-> "none", offset |-> 0, b |-> << >>, buf |-> << >>,
               n |-> 0,
               err |-> NoError]

\* leb: the last call of the package leb128 made on its own: via is "none",
\* "input" (the call is to be made), "slice" (Read on a byte slice) or
\* "reader" (ReadUint32 on a reader); b, maxbit and hasSign are the
\* arguments, n, val and err what the call returned
NoLeb == [via |-> "none", b |-> << >>, maxbit |-> 0, hasSign |-> FALSE,
          n |-> 0, val |-> Zero64, err |-> NoError]

(***************************************************************************)
(* package util and package wasm: the module decoder.  A reader is a       *)
(* record: b the bytes of its slice, cap the capacity of that slice,       *)
(* curPos the bytes consumed, and the result of the last read: val, out    *)
(* and err.  A read on a reader that holds an error changes nothing, as    *)
(* the callers return on the first error.                                  *)
(***************************************************************************)
EOF == "EOF"

LogFatal == "log.Fatal"

\* util.NewByteReader(b)
NewByteReader(b, cap) ==
  [b |-> b, cap |-> cap, curPos |-> 0, val |-> 0, out |-> << >>,
   err |-> NoError]

\* ByteReader.Read(n)
ByteReaderRead(br_, n_) ==
  CHOOSE once_ \in {(
      IF br.err # NoError THEN br
      ELSE IF br.curPos + n > Len(br.b) THEN [br EXCEPT !.out = << >>, !.err = EOF]
      ELSE [br EXCEPT !.out = SubSeq(br.b, br.curPos + 1, br.curPos + n),
                      !.curPos = br.curPos + n]
    ) : br \in {br_}, n \in {n_}} : TRUE

\* ByteReader.ReadOne(): the slice expression b[curPos : curPos+2] is a
\* run-time panic when curPos + 2 exceeds the capacity of b
ReadOne(br_) ==
  CHOOSE once_ \in {(
      IF br.err # NoError THEN br
      ELSE IF br.curPos + 1 > Len(br.b) THEN [br EXCEPT !.err = EOF]
      ELSE IF br.curPos + 2 > br.cap THEN [br EXCEPT !.err = RuntimePanic]
      ELSE [br EXCEPT !.val = br.b[br.curPos + 1], !.curPos = br.curPos + 1]
    ) : br \in {br_}} : TRUE

\* leb128.ReadUint32 on a reader: the bytes are taken one at a time, the
\* end of the bytes before the last byte of the integer is io.EOF, r is
\* the result of the loop on the bytes that are left
lebFrom(br_, r_) ==
  CHOOSE once_ \in {(
      IF r.err THEN [br EXCEPT !.err = LogFatal]
      ELSE IF r.n = 0 \/ br.b[br.curPos + r.n] >= 128
           THEN [br EXCEPT !.curPos = Len(br.b), !.err = EOF]
           ELSE [br EXCEPT !.val = ToInt(Uint32(r.val)),
                           !.curPos = br.curPos + r.n]
    ) : br \in {br_}, r \in {r_}} : TRUE

ReadUint32(br_) ==
  CHOOSE once_ \in {(
      IF br.err # NoError THEN br
      ELSE lebFrom(br, Read(SubSeq(br.b, br.curPos + 1, Len(br.b)), 32, FALSE))
    ) : br \in {br_}} : TRUE

\* the reader with the error e, when it holds none
Failing(br_, e_) ==
  CHOOSE once_ \in {(
    IF br.err # NoError THEN br ELSE [br EXCEPT !.err = e]
    ) : br \in {br_}, e \in {e_}} : TRUE

\* readValueType, br after its ReadOne
valueTypeRead(br_) ==
  CHOOSE once_ \in {(
      IF br.val \notin {127, 126, 125, 124}
      THEN Failing(br, "wasm: invalid value type") ELSE br
    ) : br \in {br_}} : TRUE

readValueType(br_) ==
  CHOOSE once_ \in {(
    valueTypeRead(ReadOne(br))
    ) : br \in {br_}} : TRUE

\* the loops over the parameter and the return types of readSectionType
RECURSIVE valueTypes(_, _)
valueTypes(br_, count_) ==
  CHOOSE once_ \in {(
      IF br.err # NoError \/ count = 0 THEN br
      ELSE valueTypes(readValueType(br), count - 1)
    ) : br \in {br_}, count \in {count_}} : TRUE

\* the types that follow a count read by ReadUint32
typesCounted(br_) ==
  CHOOSE once_ \in {(
    valueTypes(br, IF br.err # NoError THEN 0 ELSE br.val)
    ) : br \in {br_}} : TRUE

\* one function type of readSectionType, br after the ReadOne of its form
funcTypeRead(br_) ==
  CHOOSE once_ \in {(
      IF br.err # NoError THEN br
      ELSE IF br.val # FuncTypeForm
           THEN Failing(br, "wasm: invalid functype signature byte")
           ELSE typesCounted(ReadUint32(typesCounted(ReadUint32(br))))
    ) : br \in {br_}} : TRUE

RECURSIVE funcTypes(_, _)
funcTypes(br_, count_) ==
  CHOOSE once_ \in {(
      IF br.err # NoError \/ count = 0 THEN br
      ELSE funcTypes(funcTypeRead(ReadOne(br)), count - 1)
    ) : br \in {br_}, count \in {count_}} : TRUE

\* the entries that follow the vector length read by ReadUint32
typesFrom(br_) ==
  CHOOSE once_ \in {(
    funcTypes(br, IF br.err # NoError THEN 0 ELSE br.val)
    ) : br \in {br_}} : TRUE

readSectionType(br_) ==
  CHOOSE once_ \in {(
    typesFrom(ReadUint32(br))
    ) : br \in {br_}} : TRUE

\* readLimits, br after the ReadOne of the flag
limitsRead(br_) ==
  CHOOSE once_ \in {(
      IF br.err # NoError THEN br
      ELSE IF br.val = 0 THEN ReadUint32(br)
      ELSE IF br.val = 1 THEN ReadUint32(ReadUint32(br))
      ELSE Failing(br, "wasm: invalid limits flag")
    ) : br \in {br_}} : TRUE

readLimits(br_) ==
  CHOOSE once_ \in {(
    limitsRead(ReadOne(br))
    ) : br \in {br_}} : TRUE

RECURSIVE mems(_, _)
mems(br_, count_) ==
  CHOOSE once_ \in {(
      IF br.err # NoError \/ count = 0 THEN br
      ELSE mems(readLimits(br), count - 1)
    ) : br \in {br_}, count \in {count_}} : TRUE

memsFrom(br_) ==
  CHOOSE once_ \in {(
    mems(br, IF br.err # NoError THEN 0 ELSE br.val)
    ) : br \in {br_}} : TRUE

readSectionMemory(br_) ==
  CHOOSE once_ \in {(
    memsFrom(ReadUint32(br))
    ) : br \in {br_}} : TRUE

readSectionStart(br_) ==
  CHOOSE once_ \in {(
    ReadUint32(br)
    ) : br \in {br_}} : TRUE

\* the switch of readSection on the section id, for the custom, type,
\* memory and start sections and for the ids past 11
sectionBody(id_, sectionReader_) ==
  CHOOSE once_ \in {(
      CASE id = 0 -> sectionReader
        [] id = 1 -> readSectionType(sectionReader)
        [] id = 5 -> readSectionMemory(sectionReader)
        [] id = 8 -> readSectionStart(sectionReader)
        [] id > 11 -> Failing(sectionReader,
                        "wasm: read section error - unknown section id")
    ) : id \in {id_}, sectionReader \in {sectionReader_}} : TRUE

\* readSection from br.Read(datalen) on: br the reader after that read; the
\* section reader is made of the bytes read and shares their capacity
sectionRead(br_, id_) ==
  CHOOSE once_ \in {(
      IF br.err # NoError THEN br
      ELSE Failing(br, sectionBody(id,
             NewByteReader(br.out, br.cap - (br.curPos - Len(br.out)))).err)
    ) : br \in {br_}, id \in {id_}} : TRUE

\* the payload that follows the length read by ReadUint32
payload(br_) ==
  CHOOSE once_ \in {(
    IF br.err # NoError THEN br ELSE ByteReaderRead(br, br.val)
    ) : br \in {br_}} : TRUE

\* readSection from the order test on, br after the ReadOne of the id
sectionFrom(br_, id_, lastID_) ==
  CHOOSE once_ \in {(
      IF lastID # -1 /\ lastID # 0 /\ lastID >= id /\ id # 0
      THEN Failing(br, "wasm: sections must occur at most once and in the prescribed order")
      ELSE sectionRead(payload(ReadUint32(br)), id)
    ) : br \in {br_}, id \in {id_}, lastID \in {lastID_}} : TRUE

\* readSection(m, br, lastID), lastID = -1 for nil: the reader after the
\* section, val the id read
idRead(br_, lastID_) ==
  CHOOSE once_ \in {(
      IF br.err # NoError THEN br
      ELSE [sectionFrom(br, br.val, lastID) EXCEPT !.val = br.val]
    ) : br \in {br_}, lastID \in {lastID_}} : TRUE

readSection(br_, lastID_) ==
  CHOOSE once_ \in {(
    idRead(ReadOne(br), lastID)
    ) : br \in {br_}, lastID \in {lastID_}} : TRUE

\* the section struct readSection has assigned to the module when it
\* returns, pl the reader after br.Read(datalen) and id the section id: -1
\* for none.  readSectionType and readSectionMemory assign m.TypeSec and
\* m.MemSec once the vector length is read, readSectionStart assigns
\* m.StartSec before its read; the assignment stays when a later read of
\* the section fails
bodyAssigns(pl_, id_) ==
  CHOOSE once_ \in {(
      IF pl.err # NoError THEN -1
      ELSE IF id = 8 THEN 8
      ELSE IF id \in {1, 5}
              /\ ReadUint32(NewByteReader(pl.out,
                    pl.cap - (pl.curPos - Len(pl.out)))).err = NoError
           THEN id
           ELSE -1
    ) : pl \in {pl_}, id \in {id_}} : TRUE

\* the same from the order test on, br after the ReadOne of the id
assignsFrom(br_, lastID_) ==
  CHOOSE once_ \in {(
      IF br.err # NoError THEN -1
      ELSE IF lastID # -1 /\ lastID # 0 /\ lastID >= br.val /\ br.val # 0
      THEN -1
      ELSE bodyAssigns(payload(ReadUint32(br)), br.val)
    ) : br \in {br_}, lastID \in {lastID_}} : TRUE

\* the section ids of the structs the module holds after
\* readSection(m, br, lastID), assigned those it held before
sectionsAssigned(assigned_, br_, lastID_) ==
  CHOOSE once_ \in {(
      IF assignsFrom(ReadOne(br), lastID) = -1 THEN assigned
      ELSE Append(assigned, assignsFrom(ReadOne(br), lastID))
    ) : assigned \in {assigned_}, br \in {br_}, lastID \in {lastID_}} : TRUE

\* readMagic and readVersion, br after their br.Read(4)
wordRead(br_, word_, e_) ==
  CHOOSE once_ \in {(
      IF br.err # NoError \/ br.out = word THEN br ELSE Failing(br, e)
    ) : br \in {br_}, word \in {word_}, e \in {e_}} : TRUE

readMagic(br_) ==
  CHOOSE once_ \in {(
    wordRead(ByteReaderRead(br, 4), Magic, "wasm: invalid magic number")
    ) : br \in {br_}} : TRUE

readVersion(br_) ==
  CHOOSE once_ \in {(
    wordRead(ByteReaderRead(br, 4), Version, "wasm: invalid version number")
    ) : br \in {br_}} : TRUE

\* populateGlobals, populateFunctions, populateTables, populateLinearMemory
\* of a module that has none of the function, table, global, element, code
\* and data sections: each returns nil at its first test
populate(sections_) ==
  CHOOSE once_ \in {(
      CASE \A i \in 1..Len(sections) : sections[i] \in {0, 1, 5, 8} -> NoError
    ) : sections \in {sections_}} : TRUE

\* decoder: ReadModule at work: its reader br, lastID (-1 for nil), the ids
\* of the sections read, the ids of the section structs assigned to the
\* module m, and where it stands: "start", "sections" (in the loop), "done"
\* (a module was returned), "error" (err was returned), "panicked",
\* "exited", or "none" when the module was decoded before
NoDecoder ==
  [br |-> NewByteReader(<< >>, 0), lastID |-> -1, sections |-> << >>,
   assigned |-> << >>, status |-> "none", err |-> NoError]

\* the module ReadModule returns: the sections that are not nil, given the
\* ids of the section structs assigned
Decoded(sections) ==
  [TypeSec |-> \E i \in 1..Len(sections) : sections[i] = 1,
   MemSec |-> \E i \in 1..Len(sections) : sections[i] = 5,
   StartSec |-> \E i \in 1..Len(sections) : sections[i] = 8]

\* no module: ReadModule has not returned
NoModule == [TypeSec |-> FALSE, MemSec |-> FALSE, StartSec |-> FALSE]

functionImports == TheModule.Imports

framesIndex == Len(frames)

NewBlock(labelPointer_, blockType_, returnType_, basePointer_) ==
  CHOOSE once_ \in {(
      [labelPointer |-> labelPointer, blockType |-> blockType,
       returnType |-> returnType, basePointer |-> basePointer,
       executeElse |-> FALSE]
    ) : labelPointer \in {labelPointer_}, blockType \in {blockType_}, returnType \in {returnType_}, basePointer \in {basePointer_}} : TRUE

\* the state the operations below transform.  panic, reterr and fatal record
\* how the Go code left the straight-line path; regs holds the values the
\* handler keeps in local variables (what pop, peek and readLEB returned,
\* the latest first) and blk the block popBlock returned
VMState ==
  [stack |-> stack, sp |-> sp, frames |-> frames, blocks |-> blocks,
   blocksIndex |-> blocksIndex, breakDepth |-> breakDepth,
   memory |-> memory, globals |-> globals, gas |-> gas,
   panic |-> NoError, reterr |-> NoError, fatal |-> FALSE,
   regs |-> << >>, blk |-> NewBlock(0, 0, 0, 0)]

Halted(s_) ==
  CHOOSE once_ \in {(
    s.panic # NoError \/ s.reterr # NoError \/ s.fatal
    ) : s \in {s_}} : TRUE

Panic(s_, e_) ==
  CHOOSE once_ \in {(
    IF Halted(s) THEN s ELSE [s EXCEPT !.panic = e]
    ) : s \in {s_}, e \in {e_}} : TRUE

ReturnErr(s_, e_) ==
  CHOOSE once_ \in {(
    IF Halted(s) THEN s ELSE [s EXCEPT !.reterr = e]
    ) : s \in {s_}, e \in {e_}} : TRUE

\* slot i (from 0) of vm.stack
StackAt(s_, i_) ==
  CHOOSE once_ \in {(
    IF i < Len(s.stack) THEN s.stack[i + 1] ELSE Zero64
    ) : s \in {s_}, i \in {i_}} : TRUE

\* vm.stack[i] = val
StackSet(s_, i_, val_) ==
  CHOOSE once_ \in {(
      IF Halted(s) THEN s
      ELSE IF i < 0 \/ i >= StackSize THEN Panic(s, RuntimePanic)
      ELSE [s EXCEPT !.stack =
              [j \in 1..(IF i + 1 > Len(@) THEN i + 1 ELSE Len(@)) |->
                 IF j = i + 1 THEN val
                 ELSE IF j <= Len(@) THEN @[j] ELSE Zero64]]
    ) : s \in {s_}, i \in {i_}, val \in {val_}} : TRUE

incSp(s_) ==
  CHOOSE once_ \in {(
    IF Halted(s) THEN s ELSE [s EXCEPT !.sp = @ + 1]
    ) : s \in {s_}} : TRUE

push(s_, val_) ==
  CHOOSE once_ \in {(
      IF Halted(s) THEN s
      ELSE IF s.sp = StackSize THEN Panic(s, "call stack overflow")
      ELSE incSp(StackSet(s, s.sp, val))
    ) : s \in {s_}, val \in {val_}} : TRUE

\* vm.pop(): the state after it, the value returned in front of regs
pop(s_) ==
  CHOOSE once_ \in {(
      IF Halted(s) THEN s
      ELSE IF s.sp = 0 THEN Panic(s, "call stack underflow")
      ELSE IF s.sp < 0 \/ s.sp > StackSize
           THEN Panic([s EXCEPT !.sp = @ - 1], RuntimePanic)
      ELSE [s EXCEPT !.sp = @ - 1, !.regs = <<StackAt(s, s.sp - 1)>> \o @]
    ) : s \in {s_}} : TRUE

\* vm.peek(): the value returned in front of regs
peek(s_) ==
  CHOOSE once_ \in {(
      IF Halted(s) THEN s
      ELSE IF s.sp = 0 THEN Panic(s, "call stack underflow")
      ELSE IF s.sp < 0 \/ s.sp > StackSize THEN Panic(s, RuntimePanic)
      ELSE [s EXCEPT !.regs = <<StackAt(s, s.sp - 1)>> \o @]
    ) : s \in {s_}} : TRUE

currentFrame(s_) ==
  CHOOSE once_ \in {(
    s.frames[Len(s.frames)]
    ) : s \in {s_}} : TRUE

\* wasm.Module.GetFunction applied to a local index i (from 0)
ModuleGetFunction(i_) ==
  CHOOSE once_ \in {(
    i >= 0 /\ i < Len(TheModule.Funcs)
    ) : i \in {i_}} : TRUE

\* VM.GetFunction: is there a function at fidx in the unified index space
GetFunction(fidx_) ==
  CHOOSE once_ \in {(
    ModuleGetFunction(fidx - Len(functionImports))
    ) : fidx \in {fidx_}} : TRUE

FuncAt(fidx_) ==
  CHOOSE once_ \in {(
    TheModule.Funcs[fidx - Len(functionImports) + 1]
    ) : fidx \in {fidx_}} : TRUE

instructions(frame_) ==
  CHOOSE once_ \in {(
    TheModule.Funcs[frame.fn + 1].Exprs
    ) : frame \in {frame_}} : TRUE

hasEnded(frame_) ==
  CHOOSE once_ \in {(
    frame.ip = Len(instructions(frame)) - 1
    ) : frame \in {frame_}} : TRUE

NewFrame(fn_, basePointer_, baseBlockIndex_) ==
  CHOOSE once_ \in {(
      [fn |-> fn, ip |-> -1, basePointer |-> basePointer,
       baseBlockIndex |-> baseBlockIndex]
    ) : fn \in {fn_}, basePointer \in {basePointer_}, baseBlockIndex \in {baseBlockIndex_}} : TRUE

getBlockType(op_) ==
  CHOOSE once_ \in {(
      IF op = Op.Block THEN typeBlock ELSE IF op = Op.Loop THEN typeLoop ELSE typeIf
    ) : op \in {op_}} : TRUE

SetIp(s_, ip_) ==
  CHOOSE once_ \in {(
    [s EXCEPT !.frames[Len(s.frames)].ip = ip]
    ) : s \in {s_}, ip \in {ip_}} : TRUE

\* the end of Frame.readLEB, r the result of leb128.Read: log.Fatal on an
\* error, else frame.ip advances and the value is returned (in front of regs)
afterLEB(s_, r_) ==
  CHOOSE once_ \in {(
      IF r.err THEN [s EXCEPT !.fatal = TRUE]
      ELSE [SetIp(s, currentFrame(s).ip + r.n) EXCEPT !.regs = <<r.val>> \o @]
    ) : s \in {s_}, r \in {r_}} : TRUE

\* Frame.readLEB on the current frame
readLEB(s_, maxbit_, hasSign_) ==
  CHOOSE once_ \in {(
      IF Halted(s) THEN s
      ELSE afterLEB(s, Read(SubSeq(instructions(currentFrame(s)),
                                   currentFrame(s).ip + 2,
                                   Len(instructions(currentFrame(s)))),
                            maxbit, hasSign))
    ) : s \in {s_}, maxbit \in {maxbit_}, hasSign \in {hasSign_}} : TRUE

\* the Go conversions int(x) of a word, for a use as an index or a count:
\* every value outside the model's integers is replaced by one beyond
\* every capacity of the instance, on the same side of zero
HugeInt == 2147483647

IntOf(w_) ==
  CHOOSE once_ \in {(
      IF IsSmall(w) THEN ToInt(w) ELSE IF IsNeg64(w) THEN -HugeInt ELSE HugeInt
    ) : w \in {w_}} : TRUE

\* wasm.ValueType(x): the low byte of x as an int8
ValueTypeOf(w_) ==
  CHOOSE once_ \in {(
    IF w[1] >= 128 THEN w[1] - 256 ELSE w[1]
    ) : w \in {w_}} : TRUE

castReturnValue(retVal_, retType_) ==
  CHOOSE once_ \in {(
      IF retType \in {ValueTypeI32, ValueTypeF32} THEN Uint32(retVal) ELSE retVal
    ) : retVal \in {retVal_}, retType \in {retType_}} : TRUE

\* castReturnValue panics with ErrUnknownReturnType
castPanics(retType_) ==
  CHOOSE once_ \in {(
      retType \notin {ValueTypeI32, ValueTypeF32, ValueTypeI64, ValueTypeF64}
    ) : retType \in {retType_}} : TRUE

\* the slots of vm.blocks that can be read again when vm.blocksIndex is n:
\* those below n and those below the baseBlockIndex of a frame, to which
\* popFrame sets vm.blocksIndex
blocksKept(s_, n_) ==
  CHOOSE once_ \in {(
      IF \A i \in 1..Len(s.frames) : s.frames[i].baseBlockIndex <= n THEN n
      ELSE CHOOSE k \in {s.frames[i].baseBlockIndex : i \in 1..Len(s.frames)} :
             \A i \in 1..Len(s.frames) : s.frames[i].baseBlockIndex <= k
    ) : s \in {s_}, n \in {n_}} : TRUE

\* vm.blocksIndex = n; the slots of vm.blocks that no pop and no popFrame
\* can reach any more are left out of the state
SetBlocksIndex(s_, n_) ==
  CHOOSE once_ \in {(
      [s EXCEPT !.blocksIndex = n,
                !.blocks = SubSeq(@, 1, IF blocksKept(s, n) < Len(@)
                                        THEN blocksKept(s, n) ELSE Len(@))]
    ) : s \in {s_}, n \in {n_}} : TRUE

pushBlock(s_, block_) ==
  CHOOSE once_ \in {(
      IF Halted(s) THEN s
      ELSE IF s.blocksIndex = MaxBlocks THEN Panic(s, "block stack overflow")
      ELSE IF s.blocksIndex < 0 \/ s.blocksIndex > MaxBlocks
           THEN Panic(s, RuntimePanic)
      ELSE [s EXCEPT !.blocks = IF s.blocksIndex < Len(@)
                                THEN [@ EXCEPT ![s.blocksIndex + 1] = block]
                                ELSE Append(@, block),
                     !.blocksIndex = @ + 1]
    ) : s \in {s_}, block \in {block_}} : TRUE

\* vm.popBlock(): the state after it, the block returned in blk
popBlock(s_) ==
  CHOOSE once_ \in {(
      IF Halted(s) THEN s
      ELSE IF s.blocksIndex - 1 < currentFrame(s).baseBlockIndex
           THEN Panic(SetBlocksIndex(s, s.blocksIndex - 1),
                      "cannot find matching block open")
           ELSE SetBlocksIndex([s EXCEPT !.blk = s.blocks[s.blocksIndex]],
                               s.blocksIndex - 1)
    ) : s \in {s_}} : TRUE

pushFrame(s_, frame_) ==
  CHOOSE once_ \in {(
      IF Halted(s) THEN s
      ELSE IF Len(s.frames) = MaxFrames THEN Panic(s, "frame stack overflow")
      ELSE [s EXCEPT !.frames = Append(@, frame)]
    ) : s \in {s_}, frame \in {frame_}} : TRUE

\* popFrame: vm.sp and vm.blocksIndex go back to the bases of the frame
frameReset(s_) ==
  CHOOSE once_ \in {(
      SetBlocksIndex([s EXCEPT !.sp = currentFrame(s).basePointer],
                     currentFrame(s).baseBlockIndex)
    ) : s \in {s_}} : TRUE

\* popFrame: the return reset and vm.framesIndex--
frameDone(s_) ==
  CHOOSE once_ \in {(
      IF Halted(s) THEN s
      ELSE [s EXCEPT !.breakDepth = -1, !.frames = SubSeq(@, 1, Len(@) - 1)]
    ) : s \in {s_}} : TRUE

\* popFrame with a return value, after vm.peek()
frameReturn(s_, retType_) ==
  CHOOSE once_ \in {(
      IF Halted(s) THEN s
      ELSE IF castPanics(retType) THEN Panic(s, "unknown block return type")
      ELSE frameDone(push(frameReset(s), castReturnValue(s.regs[1], retType)))
    ) : s \in {s_}, retType \in {retType_}} : TRUE

returnTypes(s_) ==
  CHOOSE once_ \in {(
    TheModule.Funcs[currentFrame(s).fn + 1].ReturnTypes
    ) : s \in {s_}} : TRUE

\* popFrame without the reset of vm.sp and vm.blocksIndex
popFrameNoReset(s_) ==
  CHOOSE once_ \in {(
    IF Len(s.frames) = 0 THEN Panic(s, "no frame to pop") ELSE frameDone(s)
    ) : s \in {s_}} : TRUE

popFrame(s_) ==
  CHOOSE once_ \in {(
      IF Halted(s) THEN s
      ELSE IF Len(s.frames) = 0 THEN Panic(s, "no frame to pop")
      ELSE IF Len(returnTypes(s)) # 0
           THEN frameReturn(peek(s), returnTypes(s)[1])
           ELSE frameDone(frameReset(s))
    ) : s \in {s_}} : TRUE

operative(s_) ==
  CHOOSE once_ \in {(
    s.breakDepth = -1
    ) : s \in {s_}} : TRUE

\* blockJump that unwinds to the end of a loop as it does for a block
blockJumpLoopAsBlock(s_, bd_) ==
  CHOOSE once_ \in {(
      IF Halted(s) THEN s
      ELSE IF bd < 0 THEN Panic(s, "invalid break depth")
      ELSE IF s.blocksIndex - bd < currentFrame(s).baseBlockIndex
           THEN Panic(s, "cannot break out of current function")
      ELSE [s EXCEPT !.breakDepth = bd]
    ) : s \in {s_}, bd \in {bd_}} : TRUE

\* blockJump that takes a depth beyond the frame's blocks for the function's
\* outermost label
blockJumpBeyondFrame(s_, bd_) ==
  CHOOSE once_ \in {(
      IF Halted(s) THEN s
      ELSE IF bd < 0 THEN Panic(s, "invalid break depth")
      ELSE IF s.blocksIndex - bd <= currentFrame(s).baseBlockIndex
           THEN [s EXCEPT !.breakDepth = bd]
      ELSE IF s.blocks[s.blocksIndex - bd].blockType = typeLoop
           THEN SetIp(SetBlocksIndex(s, s.blocksIndex - bd),
                      s.blocks[s.blocksIndex - bd].labelPointer)
           ELSE [s EXCEPT !.breakDepth = bd]
    ) : s \in {s_}, bd \in {bd_}} : TRUE

blockJump(s_, bd_) ==
  CHOOSE once_ \in {(
      IF Halted(s) THEN s
      ELSE IF bd < 0 THEN Panic(s, "invalid break depth")
      ELSE IF s.blocksIndex - bd < currentFrame(s).baseBlockIndex
           THEN Panic(s, "cannot break out of current function")
      ELSE IF s.blocksIndex - bd = currentFrame(s).baseBlockIndex
           THEN [s EXCEPT !.breakDepth = bd]
      ELSE IF s.blocks[s.blocksIndex - bd].blockType = typeLoop
           THEN SetIp(SetBlocksIndex(s, s.blocksIndex - bd),
                      s.blocks[s.blocksIndex - bd].labelPointer)
           ELSE [s EXCEPT !.breakDepth = bd]
    ) : s \in {s_}, bd \in {bd_}} : TRUE


(***************************************************************************)
(* Gas: the policies and VM.BurnGas.  Limit and Used are uint64 in the     *)
(* code and stay far below 2^31 here; the one place where the width shows  *)
(* is remainingGas := Limit - Used, which wraps to a value above every     *)
(* cost of the model when Used > Limit.                                    *)
(***************************************************************************)
MallocGasPerPage == 1024

\* GasPolicy.GetCostForOp: SimpleGasPolicy burns 1 for every opcode,
\* FreeGasPolicy nothing
GetCostForOp(policy_, op_) ==
  CHOOSE once_ \in {(
    IF policy = "simple" THEN 1 ELSE 0
    ) : policy \in {policy_}, op \in {op_}} : TRUE

\* GasPolicy.GetCostForMalloc for n pages
GetCostForMalloc(policy_, n_) ==
  CHOOSE once_ \in {(
      IF policy = "simple" THEN MallocGasPerPage * n ELSE 0
    ) : policy \in {policy_}, n \in {n_}} : TRUE

\* remainingGas < cost, with remainingGas = Limit - Used in uint64
RemainingBelow(g_, cost_) ==
  CHOOSE once_ \in {(
    g.Used <= g.Limit /\ g.Limit - g.Used < cost
    ) : g \in {g_}, cost \in {cost_}} : TRUE

\* BurnGas without the comparison with the remaining gas
BurnGasUnchecked(s_, cost_) ==
  CHOOSE once_ \in {(
      IF Halted(s) THEN s ELSE [s EXCEPT !.gas.Used = @ + cost]
    ) : s \in {s_}, cost \in {cost_}} : TRUE

\* BurnGas that adds the cost before it compares
BurnGasChargeFirst(s_, cost_) ==
  CHOOSE once_ \in {(
      IF Halted(s) THEN s
      ELSE IF cost > 0 /\ RemainingBelow(s.gas, cost)
           THEN ReturnErr([s EXCEPT !.gas.Used = @ + cost], ErrOutOfGas)
           ELSE [s EXCEPT !.gas.Used = @ + cost]
    ) : s \in {s_}, cost \in {cost_}} : TRUE

BurnGas(s_, cost_) ==
  CHOOSE once_ \in {(
      IF Halted(s) THEN s
      ELSE IF cost > 0
           THEN IF RemainingBelow(s.gas, cost)
                THEN ReturnErr(s, ErrOutOfGas)
                ELSE [s EXCEPT !.gas.Used = @ + cost]
           ELSE s
    ) : s \in {s_}, cost \in {cost_}} : TRUE

\* burnGasForOp that lets br execute for nothing
burnGasForOpFreeBranch(s_, op_) ==
  CHOOSE once_ \in {(
      IF op = Op.Br THEN s ELSE BurnGas(s, GetCostForOp(gasPolicy, op))
    ) : s \in {s_}, op \in {op_}} : TRUE

burnGasForOp(s_, op_) ==
  CHOOSE once_ \in {(
    BurnGas(s, GetCostForOp(gasPolicy, op))
    ) : s \in {s_}, op \in {op_}} : TRUE

(***************************************************************************)
(* Linear memory: vm.memory is a byte slice; len is its length (a Go int)  *)
(* and data maps the addresses of its non-zero bytes to their values.      *)
(***************************************************************************)
MemSize(s_) ==
  CHOOSE once_ \in {(
    s.memory.len
    ) : s \in {s_}} : TRUE

MemByte(mem_, a_) ==
  CHOOSE once_ \in {(
    IF a \in DOMAIN mem.data THEN mem.data[a] ELSE 0
    ) : mem \in {mem_}, a \in {a_}} : TRUE

MemSetByte(mem_, a_, v_) ==
  CHOOSE once_ \in {(
      [mem EXCEPT !.data =
         IF v = 0 THEN [x \in (DOMAIN @) \ {a} |-> @[x]]
         ELSE [x \in (DOMAIN @) \cup {a} |-> IF x = a THEN v ELSE @[x]]]
    ) : mem \in {mem_}, a \in {a_}, v \in {v_}} : TRUE

\* binary.LittleEndian.PutUintN: the bytes w[1..n] written at a, a+1, ..
RECURSIVE MemPut(_, _, _, _)
MemPut(mem_, a_, w_, n_) ==
  CHOOSE once_ \in {(
      IF n = 0 THEN mem
      ELSE MemSetByte(MemPut(mem, a, w, n - 1), Add64(a, W(n - 1)), w[n])
    ) : mem \in {mem_}, a \in {a_}, w \in {w_}, n \in {n_}} : TRUE

\* binary.LittleEndian.UintN of the n bytes at address a, zero-extended
MemGet(mem_, a_, n_) ==
  CHOOSE once_ \in {(
      Mk([i \in 1..8 |-> IF i <= n THEN MemByte(mem, Add64(a, W(i - 1))) ELSE 0])
    ) : mem \in {mem_}, a \in {a_}, n \in {n_}} : TRUE

\* copy(vm.memory, data)
RECURSIVE CopyData(_, _, _)
CopyData(mem_, data_, n_) ==
  CHOOSE once_ \in {(
      IF n = 0 THEN mem
      ELSE MemSetByte(CopyData(mem, data, n - 1), W(n - 1), data[n])
    ) : mem \in {mem_}, data \in {data_}, n \in {n_}} : TRUE

\* make([]byte, pages*wasmPageSize)
NewMemory(pages_) ==
  CHOOSE once_ \in {(
    [len |-> ShlBytes(W(pages), 2), data |-> << >>]
    ) : pages \in {pages_}} : TRUE

\* VM.assertInbound: address > vm.MemSize() - accessSize, on Go ints
assertInbound(s_, address_, accessSize_) ==
  CHOOSE once_ \in {(
      IF Halted(s) THEN s
      ELSE IF LtS64(Sub64(MemSize(s), W(accessSize)), address)
           THEN Panic(s, "out of bounds memory access")
           ELSE s
    ) : s \in {s_}, address \in {address_}, accessSize \in {accessSize_}} : TRUE

\* vm.memory[address:] panics when address is outside 0..len
sliceFrom(s_, address_) ==
  CHOOSE once_ \in {(
      IF Halted(s) THEN s
      ELSE IF IsNeg64(address) \/ LtS64(MemSize(s), address)
           THEN Panic(s, RuntimePanic)
           ELSE s
    ) : s \in {s_}, address \in {address_}} : TRUE

\* copy(vm.memory[offset:], b): the first n bytes of b
RECURSIVE copyIn(_, _, _, _)
copyIn(mem_, offset_, b_, n_) ==
  CHOOSE once_ \in {(
      IF n = 0 THEN mem
      ELSE MemSetByte(copyIn(mem, offset, b, n - 1), W(offset + n - 1), b[n])
    ) : mem \in {mem_}, offset \in {offset_}, b \in {b_}, n \in {n_}} : TRUE

\* copy(b, vm.memory[offset:offset+n]): b with its first n bytes replaced
copyOut(mem_, offset_, b_, n_) ==
  CHOOSE once_ \in {(
      [i \in 1..Len(b) |->
         IF i <= n THEN MemByte(mem, W(offset + i - 1)) ELSE b[i]]
    ) : mem \in {mem_}, offset \in {offset_}, b \in {b_}, n \in {n_}} : TRUE

\* the outcome of MemRead and MemWrite: the memory, the buffer, the count
\* and the error returned; a slice expression out of range is a run-time
\* panic that returns nothing
Transferred(mem, b, n, e) == [memory |-> mem, b |-> b, n |-> n, err |-> e]

\* len(b) after b = b[:vm.MemSize()-offset] of a range that ends past the
\* memory; -1 when that slice expression panics
fitting(s_, b_, offset_) ==
  CHOOSE once_ \in {(
      IF offset + Len(b) > ToInt(MemSize(s))
      THEN (IF ToInt(MemSize(s)) - offset < 0 THEN -1
            ELSE ToInt(MemSize(s)) - offset)
      ELSE Len(b)
    ) : s \in {s_}, b \in {b_}, offset \in {offset_}} : TRUE

\* a MemWrite that leaves the last byte of b out of the copy
memWriteDropLast(s_, b_, offset_) ==
  CHOOSE once_ \in {(
      IF fitting(s, b, offset) < 0 \/ offset < 0
           \/ offset > ToInt(MemSize(s))
      THEN Transferred(s.memory, b, 0, RuntimePanic)
      ELSE Transferred(copyIn(s.memory, offset, b,
                              IF fitting(s, b, offset) = 0 THEN 0
                              ELSE fitting(s, b, offset) - 1),
                       b, fitting(s, b, offset),
                       IF offset + Len(b) > ToInt(MemSize(s))
                       THEN "short write" ELSE NoError)
    ) : s \in {s_}, b \in {b_}, offset \in {offset_}} : TRUE

\* VM.MemWrite(b, offset)
memWrite(s_, b_, offset_) ==
  CHOOSE once_ \in {(
      IF fitting(s, b, offset) < 0 \/ offset < 0
           \/ offset > ToInt(MemSize(s))
      THEN Transferred(s.memory, b, 0, RuntimePanic)
      ELSE Transferred(copyIn(s.memory, offset, b, fitting(s, b, offset)),
                       b, fitting(s, b, offset),
                       IF offset + Len(b) > ToInt(MemSize(s))
                       THEN "short write" ELSE NoError)
    ) : s \in {s_}, b \in {b_}, offset \in {offset_}} : TRUE

\* VM.MemRead(b, offset)
memRead(s_, b_, offset_) ==
  CHOOSE once_ \in {(
      IF fitting(s, b, offset) < 0 \/ offset < 0
           \/ offset + fitting(s, b, offset) > ToInt(MemSize(s))
      THEN Transferred(s.memory, b, 0, RuntimePanic)
      ELSE Transferred(s.memory,
                       copyOut(s.memory, offset, b, fitting(s, b, offset)),
                       fitting(s, b, offset),
                       IF offset + Len(b) > ToInt(MemSize(s))
                       THEN "short buffer" ELSE NoError)
    ) : s \in {s_}, b \in {b_}, offset \in {offset_}} : TRUE

(***************************************************************************)
(* Host functions (those of the test resolver) and calls.                  *)
(***************************************************************************)
\* TestResolver.GetFunction(module, name) returns a host function; for
\* every other name of env, spectest, test, Mf and Mt and for every other
\* module it ends the process with log.Fatalf
Resolves(module_, name_) ==
  CHOOSE once_ \in {(
      \/ module = "env" /\ name = "add"
      \/ module = "spectest"
           /\ name \in {"print", "print_i32", "print_i32_f32", "print_f32",
                        "print_f64", "print_f64_f64"}
      \/ module = "test" /\ name = "func-i64->i64"
      \/ module = "Mf" /\ name = "call"
      \/ module = "Mt" /\ name \in {"call", "h"}
      \/ module = "wasi_unstable"
    ) : module \in {module_}, name \in {name_}} : TRUE

\* the host function TestResolver.GetFunction(module, name) returns,
\* applied to args: <<ret, err>>
HostCall(module_, name_, args_) ==
  CHOOSE once_ \in {(
      IF module = "env" THEN << Add64(args[1], args[2]), NoError >>
      ELSE IF module = "Mf" THEN << W(2), NoError >>
      ELSE IF module = "Mt" THEN << W(4), NoError >>
      ELSE IF module = "wasi_unstable" THEN << W(52), NoError >>
      ELSE << Zero64, NoError >>
    ) : module \in {module_}, name \in {name_}, args \in {args_}} : TRUE

\* n times vm.pop(): the values popped end up in regs[1..n], the first
\* argument first
RECURSIVE popN(_, _)
popN(s_, n_) ==
  CHOOSE once_ \in {(
    IF n = 0 THEN s ELSE popN(pop(s), n - 1)
    ) : s \in {s_}, n \in {n_}} : TRUE

\* CallFunction on an import, after the host function returned r
hostReturn(s_, r_) ==
  CHOOSE once_ \in {(
      IF r[2] # NoError THEN ReturnErr(push(s, r[1]), r[2]) ELSE push(s, r[1])
    ) : s \in {s_}, r \in {r_}} : TRUE

\* CallFunction on the import fi, after the arguments were popped
hostCall(s_, fi_) ==
  CHOOSE once_ \in {(
      IF Halted(s) THEN s ELSE hostReturn(s, HostCall(fi.module, fi.name, s.regs))
    ) : s \in {s_}, fi \in {fi_}} : TRUE

\* setupFrame: vm.sp leaves space for the locals
localsSpace(s_, fn_) ==
  CHOOSE once_ \in {(
      IF Halted(s) THEN s
      ELSE [s EXCEPT !.sp = currentFrame(s).basePointer + Len(fn.ParamTypes)
                            + fn.NumLocals]
    ) : s \in {s_}, fn \in {fn_}} : TRUE

\* setupFrame: the locals vm.stack[sp-1] .. vm.stack[sp-numLocals] are
\* zeroed from the highest index down, so that an index beyond the stack is
\* a run-time panic before any slot is written and an index below 0 one
\* after the slots above it were written
zeroLocals(s_, numLocals_) ==
  CHOOSE once_ \in {(
      IF Halted(s) \/ numLocals <= 0 THEN s
      ELSE IF s.sp - 1 >= StackSize \/ s.sp - 1 < 0 THEN Panic(s, RuntimePanic)
      ELSE IF s.sp - numLocals < 0
           THEN Panic([s EXCEPT !.stack =
                         [j \in 1..(IF s.sp > Len(@) THEN s.sp ELSE Len(@)) |->
                            IF j <= s.sp \/ j > Len(@) THEN Zero64 ELSE @[j]]],
                      RuntimePanic)
      ELSE [s EXCEPT !.stack =
              [j \in 1..(IF s.sp > Len(@) THEN s.sp ELSE Len(@)) |->
                 IF s.sp - numLocals < j /\ j <= s.sp THEN Zero64
                 ELSE IF j <= Len(@) THEN @[j] ELSE Zero64]]
    ) : s \in {s_}, numLocals \in {numLocals_}} : TRUE

setupFrame(s_, fidx_) ==
  CHOOSE once_ \in {(
      IF Halted(s) THEN s
      ELSE IF ~GetFunction(fidx) THEN ReturnErr(s, ErrFuncNotFound)
      ELSE zeroLocals(
             localsSpace(
               pushFrame(s, NewFrame(fidx - Len(functionImports),
                                     s.sp - Len(FuncAt(fidx).ParamTypes),
                                     s.blocksIndex)),
               FuncAt(fidx)),
             FuncAt(fidx).NumLocals)
    ) : s \in {s_}, fidx \in {fidx_}} : TRUE

CallFunction(s_, fidx_) ==
  CHOOSE once_ \in {(
      IF Halted(s) THEN s
      ELSE IF fidx < Len(functionImports)
           THEN IF fidx < 0 THEN Panic(s, RuntimePanic)
                ELSE IF ~Resolves(functionImports[fidx + 1].module,
                                  functionImports[fidx + 1].name)
                THEN [s EXCEPT !.fatal = TRUE]
                ELSE hostCall(popN(s, Len(functionImports[fidx + 1].ParamTypes)),
                              functionImports[fidx + 1])
           ELSE setupFrame(s, fidx)
    ) : s \in {s_}, fidx \in {fidx_}} : TRUE

validateFuncArgs(fidx_, nargs_) ==
  CHOOSE once_ \in {(
      IF fidx < Len(functionImports)
      THEN IF fidx < 0 THEN RuntimePanic
           ELSE IF nargs # Len(functionImports[fidx + 1].ParamTypes)
           THEN ErrWrongNumberOfArgs ELSE NoError
      ELSE IF ~GetFunction(fidx) THEN ErrFuncNotFound
      ELSE IF nargs # Len(FuncAt(fidx).ParamTypes) THEN ErrWrongNumberOfArgs
      ELSE NoError
    ) : fidx \in {fidx_}, nargs \in {nargs_}} : TRUE


(***************************************************************************)
(* The cases of the switch of VM.interpret.  Each exec operator takes the  *)
(* state after the opcode was fetched and its gas burnt; the operators     *)
(* before it are the parts of the case after its pops and reads, whose     *)
(* results are in regs.                                                    *)
(***************************************************************************)
BoolWord(b_) ==
  CHOOSE once_ \in {(
    IF b THEN One64 ELSE Zero64
    ) : b \in {b_}} : TRUE

\* block, loop and if: the block is pushed, the type just read in regs[1]
enterBlock(s_, blockType_) ==
  CHOOSE once_ \in {(
      IF Halted(s) THEN s
      ELSE pushBlock(s, NewBlock(currentFrame(s).ip, blockType,
                                 ValueTypeOf(s.regs[1]), s.sp))
    ) : s \in {s_}, blockType \in {blockType_}} : TRUE

execBlock(s_, op_) ==
  CHOOSE once_ \in {(
    enterBlock(readLEB(s, 32, FALSE), getBlockType(op))
    ) : s \in {s_}, op \in {op_}} : TRUE

\* if, after cond := vm.pop()
ifBranch(s_) ==
  CHOOSE once_ \in {(
      IF Halted(s) THEN s
      ELSE IF s.regs[1] = Zero64
           THEN blockJump([s EXCEPT !.blocks[s.blocksIndex].executeElse = TRUE], 0)
           ELSE s
    ) : s \in {s_}} : TRUE

execIf(s_) ==
  CHOOSE once_ \in {(
    ifBranch(pop(enterBlock(readLEB(s, 32, TRUE), typeIf)))
    ) : s \in {s_}} : TRUE

\* vm.breakDepth--, ErrInvalidBreak below -1
breakRecover(s_) ==
  CHOOSE once_ \in {(
      IF s.breakDepth - 1 < -1
      THEN Panic([s EXCEPT !.breakDepth = @ - 1], "invalid break recover")
      ELSE [s EXCEPT !.breakDepth = @ - 1]
    ) : s \in {s_}} : TRUE

execElse(s_) ==
  CHOOSE once_ \in {(
      IF Halted(s) THEN s
      ELSE IF s.blocksIndex - 1 < 0 THEN Panic(s, RuntimePanic)
      ELSE IF s.blocks[s.blocksIndex].blockType # typeIf
           THEN Panic(s, "no matching If for Else block")
      ELSE IF s.blocks[s.blocksIndex].executeElse THEN breakRecover(s)
      ELSE IF operative(s) THEN blockJump(s, 0)
      ELSE s
    ) : s \in {s_}} : TRUE

\* end: castReturnValue(vm.pop(), block.returnType) is pushed back
endCast(s_) ==
  CHOOSE once_ \in {(
      IF Halted(s) THEN s
      ELSE IF castPanics(s.blk.returnType)
           THEN Panic(s, "unknown block return type")
      ELSE push(s, castReturnValue(s.regs[1], s.blk.returnType))
    ) : s \in {s_}} : TRUE

\* end: vm.sp = block.basePointer; vm.push(ret)
endKeep(s_) ==
  CHOOSE once_ \in {(
      IF Halted(s) THEN s
      ELSE push([s EXCEPT !.sp = s.blk.basePointer], s.regs[1])
    ) : s \in {s_}} : TRUE

\* end: the block has a return value
endResult(s_) ==
  CHOOSE once_ \in {(
      IF Halted(s) THEN s
      ELSE IF s.blk.basePointer < s.sp
           THEN IF s.blk.returnType # BlockTypeEmpty
                THEN endKeep(pop(endCast(pop(s))))
                ELSE endKeep(pop(s))
           ELSE s
    ) : s \in {s_}} : TRUE

endRecover(s_) ==
  CHOOSE once_ \in {(
      IF Halted(s) THEN s
      ELSE IF ~operative(s) THEN breakRecover(s) ELSE s
    ) : s \in {s_}} : TRUE

execEnd(s_) ==
  CHOOSE once_ \in {(
    endRecover(endResult(popBlock(s)))
    ) : s \in {s_}} : TRUE

brJump(s_) ==
  CHOOSE once_ \in {(
    IF Halted(s) THEN s ELSE blockJump(s, IntOf(s.regs[1]))
    ) : s \in {s_}} : TRUE

execBr(s_) ==
  CHOOSE once_ \in {(
    brJump(readLEB(s, 32, FALSE))
    ) : s \in {s_}} : TRUE

\* br_if: regs = <<cond, arg>>
brIfJump(s_) ==
  CHOOSE once_ \in {(
      IF Halted(s) THEN s
      ELSE IF s.regs[1] # Zero64 THEN blockJump(s, IntOf(s.regs[2])) ELSE s
    ) : s \in {s_}} : TRUE

execBrIf(s_) ==
  CHOOSE once_ \in {(
    brIfJump(pop(readLEB(s, 32, FALSE)))
    ) : s \in {s_}} : TRUE

\* br_table: the loop over the targetCount + 1 depths, i the index of the
\* depth read next, then the jump
RECURSIVE brTableTargets(_, _, _, _, _)
RECURSIVE brTableDepth(_, _, _, _, _)
brTableTargets(s_, i_, targetCount_, targetIndex_, targetDepth_) ==
  CHOOSE once_ \in {(
      IF Halted(s) THEN s
      ELSE IF i >= targetCount + 1 THEN blockJump(s, targetDepth)
      ELSE brTableDepth(readLEB(s, 32, FALSE), i, targetCount, targetIndex,
                        targetDepth)
    ) : s \in {s_}, i \in {i_}, targetCount \in {targetCount_}, targetIndex \in {targetIndex_}, targetDepth \in {targetDepth_}} : TRUE

\* br_table: the body of the loop after depth was read into regs[1]
brTableDepth(s_, i_, targetCount_, targetIndex_, targetDepth_) ==
  CHOOSE once_ \in {(
      IF Halted(s) THEN s
      ELSE brTableTargets(
             s, i + 1, targetCount, targetIndex,
             IF (i = targetIndex \/ i = targetCount) /\ targetDepth = -1
             THEN IntOf(s.regs[1]) ELSE targetDepth)
    ) : s \in {s_}, i \in {i_}, targetCount \in {targetCount_}, targetIndex \in {targetIndex_}, targetDepth \in {targetDepth_}} : TRUE

\* br_table that takes the default target whatever the index is
brTableJumpDefault(s_) ==
  CHOOSE once_ \in {(
      IF Halted(s) THEN s
      ELSE IF IntOf(s.regs[1]) > MaxBrTableSize
           THEN Panic(s, "too many br_table targets")
      ELSE brTableTargets(s, 0, IntOf(s.regs[1]), IntOf(s.regs[1]), -1)
    ) : s \in {s_}} : TRUE

\* br_table: regs = <<targetCount, targetIndex>>
brTableJump(s_) ==
  CHOOSE once_ \in {(
      IF Halted(s) THEN s
      ELSE IF IntOf(s.regs[1]) > MaxBrTableSize
           THEN Panic(s, "too many br_table targets")
      ELSE brTableTargets(s, 0, IntOf(s.regs[1]), IntOf(s.regs[2]), -1)
    ) : s \in {s_}} : TRUE

execBrTable(s_) ==
  CHOOSE once_ \in {(
    brTableJump(readLEB(pop(s), 32, FALSE))
    ) : s \in {s_}} : TRUE

execReturn(s_) ==
  CHOOSE once_ \in {(
      IF Halted(s) THEN s
      ELSE blockJump(s, s.blocksIndex - currentFrame(s).baseBlockIndex)
    ) : s \in {s_}} : TRUE

callRead(s_) ==
  CHOOSE once_ \in {(
    IF Halted(s) THEN s ELSE CallFunction(s, IntOf(s.regs[1]))
    ) : s \in {s_}} : TRUE

execCall(s_) ==
  CHOOSE once_ \in {(
    callRead(readLEB(s, 32, FALSE))
    ) : s \in {s_}} : TRUE

\* VM.assertFuncSig: the type of the function at fidx against the signature
\* of the call site
assertFuncSig(s_, fidx_, expectedSignature_) ==
  CHOOSE once_ \in {(
      IF Halted(s) THEN s
      ELSE IF ~GetFunction(fidx) THEN Panic(s, RuntimePanic)
      ELSE IF Len(FuncAt(fidx).ParamTypes) # Len(expectedSignature.ParamTypes)
              \/ Len(FuncAt(fidx).ReturnTypes)
                   # Len(expectedSignature.ReturnTypes)
           THEN Panic(s, "indirect call type mismatch")
      ELSE IF \E i \in 1..Len(FuncAt(fidx).ParamTypes) :
                FuncAt(fidx).ParamTypes[i] # expectedSignature.ParamTypes[i]
           THEN Panic(s, "indirect call type mismatch")
      ELSE IF \E i \in 1..Len(FuncAt(fidx).ReturnTypes) :
                FuncAt(fidx).ReturnTypes[i] # expectedSignature.ReturnTypes[i]
           THEN Panic(s, "indirect call type mismatch")
      ELSE s
    ) : s \in {s_}, fidx \in {fidx_}, expectedSignature \in {expectedSignature_}} : TRUE

\* call_indirect: vm.Module.TypeSec.FuncTypes[sigIndex], sigIndex in regs[1]
sigLookup(s_) ==
  CHOOSE once_ \in {(
      IF Halted(s) THEN s
      ELSE IF IntOf(s.regs[1]) >= Len(TheModule.Types)
           THEN Panic(s, RuntimePanic)
      ELSE s
    ) : s \in {s_}} : TRUE

\* call_indirect: the signature is asserted after the call, and only for a
\* function that is not an import
indirectSig(s_, fidx_, sigIndex_) ==
  CHOOSE once_ \in {(
      IF Halted(s) THEN s
      ELSE IF fidx >= Len(functionImports)
           THEN assertFuncSig(s, fidx, TheModule.Types[sigIndex + 1])
      ELSE s
    ) : s \in {s_}, fidx \in {fidx_}, sigIndex \in {sigIndex_}} : TRUE

\* call_indirect after eidx := vm.pop(): regs = <<eidx, reserved, sigIndex>>.
\* The bound is tested on int(eidx), the table is indexed by the uint64 eidx
indirectCall(s_) ==
  CHOOSE once_ \in {(
      IF Halted(s) THEN s
      ELSE IF Len(TheModule.Tables) = 0 THEN Panic(s, RuntimePanic)
      ELSE IF IntOf(s.regs[1]) >= Len(TheModule.Tables[1])
           THEN Panic(s, "out of bounds table access")
      ELSE IF IntOf(s.regs[1]) < 0 THEN Panic(s, RuntimePanic)
      ELSE indirectSig(
             CallFunction(s, TheModule.Tables[1][IntOf(s.regs[1]) + 1]),
             TheModule.Tables[1][IntOf(s.regs[1]) + 1], IntOf(s.regs[3]))
    ) : s \in {s_}} : TRUE

execCallIndirect(s_) ==
  CHOOSE once_ \in {(
    indirectCall(pop(readLEB(sigLookup(readLEB(s, 32, FALSE)), 1, FALSE)))
    ) : s \in {s_}} : TRUE

execDrop(s_) ==
  CHOOSE once_ \in {(
    pop(s)
    ) : s \in {s_}} : TRUE

\* select: regs = <<first, second, cond>>
selectPush(s_) ==
  CHOOSE once_ \in {(
      IF Halted(s) THEN s
      ELSE IF s.regs[3] = Zero64 THEN push(s, s.regs[2]) ELSE push(s, s.regs[1])
    ) : s \in {s_}} : TRUE

execSelect(s_) ==
  CHOOSE once_ \in {(
    selectPush(pop(pop(pop(s))))
    ) : s \in {s_}} : TRUE

\* frame.basePointer + int(arg), arg in regs[k]
localIndex(s_, k_) ==
  CHOOSE once_ \in {(
    currentFrame(s).basePointer + IntOf(s.regs[k])
    ) : s \in {s_}, k \in {k_}} : TRUE

getLocal(s_) ==
  CHOOSE once_ \in {(
      IF Halted(s) THEN s
      ELSE IF localIndex(s, 1) < 0 \/ localIndex(s, 1) >= StackSize
           THEN Panic(s, RuntimePanic)
      ELSE push(s, StackAt(s, localIndex(s, 1)))
    ) : s \in {s_}} : TRUE

execGetLocal(s_) ==
  CHOOSE once_ \in {(
    getLocal(readLEB(s, 32, FALSE))
    ) : s \in {s_}} : TRUE

\* set_local and tee_local: regs = <<value, arg>>
setLocal(s_) ==
  CHOOSE once_ \in {(
      IF Halted(s) THEN s ELSE StackSet(s, localIndex(s, 2), s.regs[1])
    ) : s \in {s_}} : TRUE

execSetLocal(s_) ==
  CHOOSE once_ \in {(
    setLocal(pop(readLEB(s, 32, FALSE)))
    ) : s \in {s_}} : TRUE

execTeeLocal(s_) ==
  CHOOSE once_ \in {(
    setLocal(peek(readLEB(s, 32, FALSE)))
    ) : s \in {s_}} : TRUE

getGlobal(s_) ==
  CHOOSE once_ \in {(
      IF Halted(s) THEN s
      ELSE IF IntOf(s.regs[1]) >= Len(s.globals) THEN Panic(s, RuntimePanic)
      ELSE push(s, s.globals[IntOf(s.regs[1]) + 1])
    ) : s \in {s_}} : TRUE

execGetGlobal(s_) ==
  CHOOSE once_ \in {(
    getGlobal(readLEB(s, 32, FALSE))
    ) : s \in {s_}} : TRUE

\* set_global: regs = <<value, arg>>
setGlobal(s_) ==
  CHOOSE once_ \in {(
      IF Halted(s) THEN s
      ELSE IF IntOf(s.regs[2]) >= Len(s.globals) THEN Panic(s, RuntimePanic)
      ELSE [s EXCEPT !.globals[IntOf(s.regs[2]) + 1] = s.regs[1]]
    ) : s \in {s_}} : TRUE

execSetGlobal(s_) ==
  CHOOSE once_ \in {(
    setGlobal(pop(readLEB(s, 32, FALSE)))
    ) : s \in {s_}} : TRUE

\* the value a load pushes, from the bytes at address
loadValue(op_, mem_, address_) ==
  CHOOSE once_ \in {(
      IF op \in {Op.I32Load, Op.F32Load, Op.I64Load32U}
      THEN MemGet(mem, address, 4)
      ELSE IF op \in {Op.I64Load, Op.F64Load} THEN MemGet(mem, address, 8)
      ELSE IF op \in {Op.I32Load8S, Op.I64Load8S}
      THEN Int8(MemGet(mem, address, 1))
      ELSE IF op \in {Op.I32Load8U, Op.I64Load8U} THEN MemGet(mem, address, 1)
      ELSE IF op \in {Op.I32Load16S, Op.I64Load16S}
      THEN Int16(MemGet(mem, address, 2))
      ELSE IF op \in {Op.I32Load16U, Op.I64Load16U} THEN MemGet(mem, address, 2)
      ELSE Int32(MemGet(mem, address, 4))
    ) : op \in {op_}, mem \in {mem_}, address \in {address_}} : TRUE

loadPush(s_, op_, address_) ==
  CHOOSE once_ \in {(
      IF Halted(s) THEN s ELSE push(s, loadValue(op, s.memory, address))
    ) : s \in {s_}, op \in {op_}, address \in {address_}} : TRUE

\* assertInbound, then curMem := vm.memory[address:]
boundsChecked(s_, op_, address_) ==
  CHOOSE once_ \in {(
      sliceFrom(assertInbound(s, address, MemAccessSize(op)), address)
    ) : s \in {s_}, op \in {op_}, address \in {address_}} : TRUE

\* a load: regs = <<popped address, offset, alignment>>
loadAt(s_, op_) ==
  CHOOSE once_ \in {(
      IF Halted(s) THEN s
      ELSE loadPush(boundsChecked(s, op, Add64(s.regs[1], s.regs[2])), op,
                    Add64(s.regs[1], s.regs[2]))
    ) : s \in {s_}, op \in {op_}} : TRUE

execLoad(s_, op_) ==
  CHOOSE once_ \in {(
      loadAt(pop(readLEB(readLEB(s, 32, FALSE), 32, FALSE)), op)
    ) : s \in {s_}, op \in {op_}} : TRUE

storePut(s_, op_, address_, v_) ==
  CHOOSE once_ \in {(
      IF Halted(s) THEN s
      ELSE [s EXCEPT !.memory = MemPut(@, address, v, MemAccessSize(op))]
    ) : s \in {s_}, op \in {op_}, address \in {address_}, v \in {v_}} : TRUE

\* a store: regs = <<popped address, v, offset, alignment>>
storeAt(s_, op_) ==
  CHOOSE once_ \in {(
      IF Halted(s) THEN s
      ELSE storePut(boundsChecked(s, op, Add64(s.regs[1], s.regs[3])), op,
                    Add64(s.regs[1], s.regs[3]), s.regs[2])
    ) : s \in {s_}, op \in {op_}} : TRUE

execStore(s_, op_) ==
  CHOOSE once_ \in {(
      storeAt(pop(pop(readLEB(readLEB(s, 32, FALSE), 32, FALSE))), op)
    ) : s \in {s_}, op \in {op_}} : TRUE

memorySize(s_) ==
  CHOOSE once_ \in {(
      IF Halted(s) THEN s ELSE push(s, ShrBytes(MemSize(s), 2))
    ) : s \in {s_}} : TRUE

execMemorySize(s_) ==
  CHOOSE once_ \in {(
    memorySize(readLEB(s, 1, FALSE))
    ) : s \in {s_}} : TRUE

\* memory.grow: the pages are appended, then the gas of the allocation is
\* burnt and the old number of pages is pushed
growTo(s_, pages_, n_, sum_) ==
  CHOOSE once_ \in {(
      push(BurnGas([s EXCEPT !.memory.len = ShlBytes(sum, 2)],
                   GetCostForMalloc(gasPolicy, ToInt(n))),
           Uint32(pages))
    ) : s \in {s_}, pages \in {pages_}, n \in {n_}, sum \in {sum_}} : TRUE

\* memory.grow of n pages on a memory of pages pages, sum = pages + n
growBy(s_, pages_, n_, sum_, maxPages_) ==
  CHOOSE once_ \in {(
      IF LeS64(pages, sum) /\ LeS64(sum, W(maxPages))
      THEN growTo(s, pages, n, sum)
      ELSE push(s, Uint32(AllOnes64))
    ) : s \in {s_}, pages \in {pages_}, n \in {n_}, sum \in {sum_}, maxPages \in {maxPages_}} : TRUE

\* maxSize / wasmPageSize, or the declared maximum below it
maxPagesOf(limit_) ==
  CHOOSE once_ \in {(
      IF limit.Flag = 1 /\ maxSizePages > limit.Max THEN limit.Max
      ELSE maxSizePages
    ) : limit \in {limit_}} : TRUE

\* memory.grow, n in regs[1]; the limits are read through vm.Module.MemSec,
\* which is nil when the module has no memory section
memoryGrow(s_) ==
  CHOOSE once_ \in {(
      IF Halted(s) THEN s
      ELSE IF ~TheModule.HasMem THEN Panic(s, RuntimePanic)
      ELSE growBy(s, ShrBytes(MemSize(s), 2), s.regs[1],
                  Add64(ShrBytes(MemSize(s), 2), s.regs[1]),
                  maxPagesOf(TheModule.Limits))
    ) : s \in {s_}} : TRUE

execMemoryGrow(s_) ==
  CHOOSE once_ \in {(
    memoryGrow(pop(readLEB(s, 1, FALSE)))
    ) : s \in {s_}} : TRUE

constPush(s_) ==
  CHOOSE once_ \in {(
    IF Halted(s) THEN s ELSE push(s, s.regs[1])
    ) : s \in {s_}} : TRUE

execI32Const(s_) ==
  CHOOSE once_ \in {(
    constPush(readLEB(s, 32, TRUE))
    ) : s \in {s_}} : TRUE

execI64Const(s_) ==
  CHOOSE once_ \in {(
    constPush(readLEB(s, 64, TRUE))
    ) : s \in {s_}} : TRUE

i32Eqz(s_) ==
  CHOOSE once_ \in {(
      IF Halted(s) THEN s ELSE push(s, BoolWord(Uint32(s.regs[1]) = Zero64))
    ) : s \in {s_}} : TRUE

execI32Eqz(s_) ==
  CHOOSE once_ \in {(
    i32Eqz(pop(s))
    ) : s \in {s_}} : TRUE


\* the i32 binary operators on a and b (uint32): the panic, or "nil", and c
i32Trap(op_, a_, b_) ==
  CHOOSE once_ \in {(
      IF op \in {Op.I32DivS, Op.I32DivU, Op.I32RemS, Op.I32RemU} /\ b = Zero64
      THEN "integer divide by zero"
      ELSE IF op = Op.I32DivS /\ a = MinInt32Word /\ b = MaxInt32Word
      THEN "integer overflow"
      ELSE NoError
    ) : op \in {op_}, a \in {a_}, b \in {b_}} : TRUE

i32Binop(op_, a_, b_) ==
  CHOOSE once_ \in {(
      IF op = Op.I32Eq THEN BoolWord(a = b)
      ELSE IF op = Op.I32Ne THEN BoolWord(a # b)
      ELSE IF op = Op.I32LtS THEN BoolWord(LtS64(Int32(a), Int32(b)))
      ELSE IF op = Op.I32LtU THEN BoolWord(LtU64(a, b))
      ELSE IF op = Op.I32Add THEN Uint32(Add64(a, b))
      ELSE IF op = Op.I32Sub THEN Uint32(Sub64(a, b))
      ELSE IF op = Op.I32DivS THEN Uint32(DivS64(Int32(a), Int32(b)))
      ELSE IF op = Op.I32DivU THEN DivU64(a, b)
      ELSE IF op = Op.I32RemS THEN Uint32(RemS64(Int32(a), Int32(b)))
      ELSE RemU64(a, b)
    ) : op \in {op_}, a \in {a_}, b \in {b_}} : TRUE

I32Binops ==
  {Op.I32Eq, Op.I32Ne, Op.I32LtS, Op.I32LtU, Op.I32Add, Op.I32Sub,
   Op.I32DivS, Op.I32DivU, Op.I32RemS, Op.I32RemU}

i32Result(s_, op_, a_, b_) ==
  CHOOSE once_ \in {(
      IF i32Trap(op, a, b) # NoError THEN Panic(s, i32Trap(op, a, b))
      ELSE push(s, i32Binop(op, a, b))
    ) : s \in {s_}, op \in {op_}, a \in {a_}, b \in {b_}} : TRUE

\* an i32 binary operator: regs = <<a, b>> (b was popped first)
i32Apply(s_, op_) ==
  CHOOSE once_ \in {(
      IF Halted(s) THEN s
      ELSE i32Result(s, op, Uint32(s.regs[1]), Uint32(s.regs[2]))
    ) : s \in {s_}, op \in {op_}} : TRUE

execI32Binop(s_, op_) ==
  CHOOSE once_ \in {(
    i32Apply(pop(pop(s)), op)
    ) : s \in {s_}, op \in {op_}} : TRUE

\* the i64 binary operators on a and b (uint64)
i64Trap(op_, a_, b_) ==
  CHOOSE once_ \in {(
      IF op \in {Op.I64DivS, Op.I64DivU, Op.I64RemS, Op.I64RemU} /\ b = Zero64
      THEN "integer divide by zero"
      ELSE IF op = Op.I64DivS /\ a = MinInt64Word /\ b = MaxInt64Word
      THEN "integer overflow"
      ELSE NoError
    ) : op \in {op_}, a \in {a_}, b \in {b_}} : TRUE

i64Binop(op_, a_, b_) ==
  CHOOSE once_ \in {(
      IF op = Op.I64Add THEN Add64(a, b)
      ELSE IF op = Op.I64Sub THEN Sub64(a, b)
      ELSE IF op = Op.I64DivS THEN DivS64(a, b)
      ELSE IF op = Op.I64DivU THEN DivU64(a, b)
      ELSE IF op = Op.I64RemS THEN RemS64(a, b)
      ELSE RemU64(a, b)
    ) : op \in {op_}, a \in {a_}, b \in {b_}} : TRUE

I64Binops ==
  {Op.I64Add, Op.I64Sub, Op.I64DivS, Op.I64DivU, Op.I64RemS, Op.I64RemU}

i64Result(s_, op_, a_, b_) ==
  CHOOSE once_ \in {(
      IF i64Trap(op, a, b) # NoError THEN Panic(s, i64Trap(op, a, b))
      ELSE push(s, i64Binop(op, a, b))
    ) : s \in {s_}, op \in {op_}, a \in {a_}, b \in {b_}} : TRUE

i64Apply(s_, op_) ==
  CHOOSE once_ \in {(
      IF Halted(s) THEN s ELSE i64Result(s, op, s.regs[1], s.regs[2])
    ) : s \in {s_}, op \in {op_}} : TRUE

execI64Binop(s_, op_) ==
  CHOOSE once_ \in {(
    i64Apply(pop(pop(s)), op)
    ) : s \in {s_}, op \in {op_}} : TRUE

(***************************************************************************)
(* Floating point.  A float32 or float64 value is a record: cls is "nan",  *)
(* "inf", "zero" or "fin", neg is the sign bit and a finite value other    *)
(* than zero has the magnitude m * 2^x with m odd.  The arithmetic gives   *)
(* the exact result, which float32(...) and the bits of a value round to   *)
(* the nearest value of the format, ties to even.                          *)
(***************************************************************************)
f32SignMask == <<0, 0, 0, 128, 0, 0, 0, 0>>

f64SignMask == <<0, 0, 0, 0, 0, 0, 0, 128>>

\* 0x7fc00000
f32CanonicalNaNBits == <<0, 0, 192, 127, 0, 0, 0, 0>>

\* 0x7ff8000000000000
f64CanonicalNaNBits == <<0, 0, 0, 0, 0, 0, 248, 127>>

\* number.Type and number.TrapCode
number ==
  [F32 |-> "F32", F64 |-> "F64", I32 |-> "I32", I64 |-> "I64",
   U32 |-> "U32", U64 |-> "U64",
   NoTrap |-> "NoTrap", NanTrap |-> "NanTrap", ConvertTrap |-> "ConvertTrap"]

Xor64(a_, b_) ==
  CHOOSE once_ \in {(
    FromBits([k \in 0..63 |-> (BitOf(a, k) + BitOf(b, k)) % 2])
    ) : a \in {a_}, b \in {b_}} : TRUE

\* a &^ b
AndNot64(a_, b_) ==
  CHOOSE once_ \in {(
    And64(a, Not64(b))
    ) : a \in {a_}, b \in {b_}} : TRUE

NaN == [cls |-> "nan", neg |-> FALSE, m |-> 0, x |-> 0]

Inf(neg) == [cls |-> "inf", neg |-> neg, m |-> 0, x |-> 0]

FZero(neg) == [cls |-> "zero", neg |-> neg, m |-> 0, x |-> 0]

\* the number of low zero bits of m, 0 < m < 2^31
trailingZeros(m_) ==
  CHOOSE once_ \in {(
    CHOOSE k \in 0..30 : m % 2^k = 0 /\ (m \div 2^k) % 2 = 1
    ) : m \in {m_}} : TRUE

\* the number of bits of m, 0 < m < 2^31
bitLen(m_) ==
  CHOOSE once_ \in {(
    CHOOSE l \in 1..31 : m \div 2^(l - 1) = 1
    ) : m \in {m_}} : TRUE

\* the value (-1)^neg * m * 2^x
Fin(neg_, m_, x_) ==
  CHOOSE once_ \in {(
    IF m = 0 THEN FZero(neg)
    ELSE [cls |-> "fin", neg |-> neg, m |-> m \div 2^trailingZeros(m),
          x |-> x + trailingZeros(m)]
    ) : neg \in {neg_}, m \in {m_}, x \in {x_}} : TRUE

\* the width of the fraction, the exponent bias and the largest exponent
\* field of the formats
fracBits(t_) ==
  CHOOSE once_ \in {(
    IF t = number.F32 THEN 23 ELSE 52
    ) : t \in {t_}} : TRUE

expBias(t_) ==
  CHOOSE once_ \in {(
    IF t = number.F32 THEN 127 ELSE 1023
    ) : t \in {t_}} : TRUE

expMax(t_) ==
  CHOOSE once_ \in {(
    IF t = number.F32 THEN 255 ELSE 2047
    ) : t \in {t_}} : TRUE

\* math.Float32frombits(b), b a uint32
Float32frombits(b_) ==
  CHOOSE once_ \in {(
    LET neg  == b[4] >= 128
        exp  == (b[4] % 128) * 2 + b[3] \div 128
        frac == (b[3] % 128) * 65536 + b[2] * 256 + b[1]
    IN IF exp = 255 THEN (IF frac = 0 THEN Inf(neg) ELSE [NaN EXCEPT !.neg = neg])
       ELSE IF exp = 0 THEN Fin(neg, frac, -149)
       ELSE Fin(neg, 8388608 + frac, exp - 150)
    ) : b \in {b_}} : TRUE

\* math.Float64frombits(b) for the values whose fraction has its low 24
\* bits clear (the magnitude of every other finite value is not defined)
Float64frombits(b_) ==
  CHOOSE once_ \in {(
    LET neg  == b[8] >= 128
        exp  == (b[8] % 128) * 16 + b[7] \div 16
        hi   == (b[7] % 16) * 16777216 + b[6] * 65536 + b[5] * 256 + b[4]
        lo   == b[3] * 65536 + b[2] * 256 + b[1]
    IN IF exp = 2047
       THEN (IF hi = 0 /\ lo = 0 THEN Inf(neg) ELSE [NaN EXCEPT !.neg = neg])
       ELSE CASE lo = 0 ->
              IF exp = 0 THEN Fin(neg, hi, -1050)
              ELSE Fin(neg, 268435456 + hi, exp - 1051)
    ) : b \in {b_}} : TRUE

\* m / 2^k rounded to the nearest integer, ties to even; 0 < m < 2^31, k > 0
roundShift(m_, k_) ==
  CHOOSE once_ \in {(
    LET q == IF k > 30 THEN 0 ELSE m \div 2^k
        r == IF k > 30 THEN m ELSE m % 2^k
    IN IF k > 31 THEN 0
       ELSE IF r > 2^(k - 1) \/ (r = 2^(k - 1) /\ q % 2 = 1) THEN q + 1
       ELSE q
    ) : m \in {m_}, k \in {k_}} : TRUE

\* the bits of +Inf
infBits(t_) ==
  CHOOSE once_ \in {(
    Shl64(W(expMax(t)), fracBits(t))
    ) : t \in {t_}} : TRUE

\* the bits of the value of format t nearest to m * 2^x: e is the exponent
\* of the leading bit, q the exponent of the last place kept, sig the
\* significand in units of 2^q; adding sig, whose leading bit is the hidden
\* bit, to the field e + bias - 1 gives the exponent field of a normal value
\* and 0 for a subnormal one
packed(t_, m_, x_) ==
  CHOOSE once_ \in {(
    LET e   == x + bitLen(m) - 1
        ee  == IF e < 1 - expBias(t) THEN 1 - expBias(t) ELSE e
        q   == ee - fracBits(t)
        sig == IF x >= q THEN Shl64(W(m), x - q) ELSE W(roundShift(m, q - x))
        sum == Add64(Shl64(W(ee + expBias(t) - 1), fracBits(t)), sig)
    IN IF ee + expBias(t) >= expMax(t) THEN infBits(t)
       ELSE IF LtU64(sum, infBits(t)) THEN sum
       ELSE infBits(t)
    ) : t \in {t_}, m \in {m_}, x \in {x_}} : TRUE

\* math.Float32bits and math.Float64bits of a value that is no NaN
bitsOf(t_, v_) ==
  CHOOSE once_ \in {(
    LET sign == IF v.neg THEN (IF t = number.F32 THEN f32SignMask ELSE f64SignMask)
                ELSE Zero64
    IN CASE v.cls = "zero" -> sign
         [] v.cls = "inf" -> Or64(sign, infBits(t))
         [] v.cls = "fin" -> Or64(sign, packed(t, v.m, v.x))
    ) : t \in {t_}, v \in {v_}} : TRUE

Float32bits(v_) ==
  CHOOSE once_ \in {(
    bitsOf(number.F32, v)
    ) : v \in {v_}} : TRUE

Float64bits(v_) ==
  CHOOSE once_ \in {(
    bitsOf(number.F64, v)
    ) : v \in {v_}} : TRUE

\* the conversions float32(v) and float64(v) of an exact result
float32(v_) ==
  CHOOSE once_ \in {(
    IF v.cls = "fin" THEN Float32frombits(Float32bits(v)) ELSE v
    ) : v \in {v_}} : TRUE

float64(v_) ==
  CHOOSE once_ \in {(
    IF v.cls = "fin" THEN Float64frombits(Float64bits(v)) ELSE v
    ) : v \in {v_}} : TRUE

IsNaN(v_) ==
  CHOOSE once_ \in {(
    v.cls = "nan"
    ) : v \in {v_}} : TRUE

Signbit(v_) ==
  CHOOSE once_ \in {(
    v.neg
    ) : v \in {v_}} : TRUE

\* a + b
fadd(a_, b_) ==
  CHOOSE once_ \in {(
    IF IsNaN(a) \/ IsNaN(b) THEN NaN
    ELSE IF a.cls = "inf" /\ b.cls = "inf" THEN (IF a.neg = b.neg THEN a ELSE NaN)
    ELSE IF a.cls = "inf" THEN a
    ELSE IF b.cls = "inf" THEN b
    ELSE IF a.cls = "zero" /\ b.cls = "zero" THEN FZero(a.neg /\ b.neg)
    ELSE IF a.cls = "zero" THEN b
    ELSE IF b.cls = "zero" THEN a
    ELSE LET x == IF a.x < b.x THEN a.x ELSE b.x
             s == (IF a.neg THEN -1 ELSE 1) * a.m * 2^(a.x - x)
                  + (IF b.neg THEN -1 ELSE 1) * b.m * 2^(b.x - x)
         IN IF s = 0 THEN FZero(FALSE)
            ELSE Fin(s < 0, IF s < 0 THEN -s ELSE s, x)
    ) : a \in {a_}, b \in {b_}} : TRUE

\* a - b
fsub(a_, b_) ==
  CHOOSE once_ \in {(
    IF IsNaN(b) THEN NaN ELSE fadd(a, [b EXCEPT !.neg = ~@])
    ) : a \in {a_}, b \in {b_}} : TRUE

\* a * b
fmul(a_, b_) ==
  CHOOSE once_ \in {(
    IF IsNaN(a) \/ IsNaN(b) THEN NaN
    ELSE IF {a.cls, b.cls} = {"inf", "zero"} THEN NaN
    ELSE IF "inf" \in {a.cls, b.cls} THEN Inf(a.neg # b.neg)
    ELSE IF "zero" \in {a.cls, b.cls} THEN FZero(a.neg # b.neg)
    ELSE Fin(a.neg # b.neg, a.m * b.m, a.x + b.x)
    ) : a \in {a_}, b \in {b_}} : TRUE

\* a / b; the quotient of two finite values is defined where it is a dyadic
\* rational (b.m divides a.m)
fdiv(a_, b_) ==
  CHOOSE once_ \in {(
    IF IsNaN(a) \/ IsNaN(b) THEN NaN
    ELSE IF a.cls = b.cls /\ a.cls \in {"inf", "zero"} THEN NaN
    ELSE IF a.cls = "inf" \/ b.cls = "zero" THEN Inf(a.neg # b.neg)
    ELSE IF a.cls = "zero" \/ b.cls = "inf" THEN FZero(a.neg # b.neg)
    ELSE CASE a.m % b.m = 0 -> Fin(a.neg # b.neg, a.m \div b.m, a.x - b.x)
    ) : a \in {a_}, b \in {b_}} : TRUE

\* |a| < |b| for values that are no NaN and not zero
magLess(a_, b_) ==
  CHOOSE once_ \in {(
    IF a.cls = "inf" THEN FALSE
    ELSE IF b.cls = "inf" THEN TRUE
    ELSE IF a.x + bitLen(a.m) # b.x + bitLen(b.m)
    THEN a.x + bitLen(a.m) < b.x + bitLen(b.m)
    ELSE LET x == IF a.x < b.x THEN a.x ELSE b.x
         IN a.m * 2^(a.x - x) < b.m * 2^(b.x - x)
    ) : a \in {a_}, b \in {b_}} : TRUE

\* -1, 0 or 1: the sign of a value that is no NaN
signOf(v_) ==
  CHOOSE once_ \in {(
    IF v.cls = "zero" THEN 0 ELSE IF v.neg THEN -1 ELSE 1
    ) : v \in {v_}} : TRUE

\* a < b for values that are no NaN
fless(a_, b_) ==
  CHOOSE once_ \in {(
    IF signOf(a) # signOf(b) THEN signOf(a) < signOf(b)
    ELSE IF signOf(a) = 0 THEN FALSE
    ELSE IF signOf(a) = 1 THEN magLess(a, b)
    ELSE magLess(b, a)
    ) : a \in {a_}, b \in {b_}} : TRUE

\* math.Min(x, y)
mathMin(x_, y_) ==
  CHOOSE once_ \in {(
    IF (x.cls = "inf" /\ x.neg) \/ (y.cls = "inf" /\ y.neg) THEN Inf(TRUE)
    ELSE IF IsNaN(x) \/ IsNaN(y) THEN NaN
    ELSE IF x.cls = "zero" /\ y.cls = "zero" THEN (IF Signbit(x) THEN x ELSE y)
    ELSE IF fless(x, y) THEN x
    ELSE y
    ) : x \in {x_}, y \in {y_}} : TRUE

\* math.Max(x, y)
mathMax(x_, y_) ==
  CHOOSE once_ \in {(
    IF (x.cls = "inf" /\ ~x.neg) \/ (y.cls = "inf" /\ ~y.neg) THEN Inf(FALSE)
    ELSE IF IsNaN(x) \/ IsNaN(y) THEN NaN
    ELSE IF x.cls = "zero" /\ y.cls = "zero" THEN (IF Signbit(x) THEN y ELSE x)
    ELSE IF fless(y, x) THEN x
    ELSE y
    ) : x \in {x_}, y \in {y_}} : TRUE

\* the integer part of |f| for a finite f that is no integer (x < 0)
wholePart(f_) ==
  CHOOSE once_ \in {(
    IF -f.x > 30 THEN 0 ELSE f.m \div 2^(-f.x)
    ) : f \in {f_}} : TRUE

\* f is finite and has a fractional part
hasFraction(f_) ==
  CHOOSE once_ \in {(
    f.cls = "fin" /\ f.x < 0
    ) : f \in {f_}} : TRUE

\* math.Trunc(f)
mathTrunc(f_) ==
  CHOOSE once_ \in {(
    IF hasFraction(f) THEN Fin(f.neg, wholePart(f), 0) ELSE f
    ) : f \in {f_}} : TRUE

\* math.Floor(f)
mathFloor(f_) ==
  CHOOSE once_ \in {(
    IF hasFraction(f)
    THEN Fin(f.neg, IF f.neg THEN wholePart(f) + 1 ELSE wholePart(f), 0)
    ELSE f
    ) : f \in {f_}} : TRUE

\* math.Ceil(f)
mathCeil(f_) ==
  CHOOSE once_ \in {(
    IF hasFraction(f)
    THEN Fin(f.neg, IF f.neg THEN wholePart(f) ELSE wholePart(f) + 1, 0)
    ELSE f
    ) : f \in {f_}} : TRUE

\* math.RoundToEven(f)
mathRoundToEven(f_) ==
  CHOOSE once_ \in {(
    IF hasFraction(f) THEN Fin(f.neg, roundShift(f.m, -f.x), 0) ELSE f
    ) : f \in {f_}} : TRUE

\* math.Sqrt(f); the root of a finite value is defined where it is a dyadic
\* rational (f is m * 2^x with x even and m a square)
mathSqrt(f_) ==
  CHOOSE once_ \in {(
    IF IsNaN(f) THEN NaN
    ELSE IF f.cls = "zero" THEN f
    ELSE IF f.neg THEN NaN
    ELSE IF f.cls = "inf" THEN f
    ELSE LET m2 == IF f.x % 2 = 1 THEN 2 * f.m ELSE f.m
             x2 == IF f.x % 2 = 1 THEN f.x - 1 ELSE f.x
         IN Fin(FALSE,
                CHOOSE r \in 1..2^((bitLen(m2) + 1) \div 2) : r * r = m2,
                x2 \div 2)
    ) : f \in {f_}} : TRUE

(***************************************************************************)
(* package number: FloatTruncate.                                          *)
(***************************************************************************)
\* 2^k as a float, 0 <= k
PowerOfTwo(k) == [cls |-> "fin", neg |-> FALSE, m |-> 1, x |-> k]

\* a CanTruncate whose upper bounds are values of the range
CanTruncateClosed(from_, to_, v_) ==
  CHOOSE once_ \in {(
    ~fless(v, [PowerOfTwo(IF to \in {number.I64, number.U64} THEN 63 ELSE 31)
                 EXCEPT !.neg = TRUE])
    /\ ~fless(PowerOfTwo(IF to = number.I32 THEN 31
                         ELSE IF to = number.U32 THEN 32
                         ELSE IF to = number.I64 THEN 63 ELSE 64), v)
    ) : from \in {from_}, to \in {to_}, v \in {v_}} : TRUE

\* number.CanTruncate(from, to, v), v no NaN.  The bounds are the constants
\* math.MinInt32, math.MaxInt32+1, ... converted to the type of v, which
\* holds each of them but math.MinInt32-1; v is above that one exactly when
\* its integer part is at least math.MinInt32
CanTruncate(from_, to_, v_) ==
  CHOOSE once_ \in {(
    IF to = number.I32
    THEN /\ IF from = number.F32
            THEN ~fless(v, [PowerOfTwo(31) EXCEPT !.neg = TRUE])
            ELSE ~fless(mathTrunc(v), [PowerOfTwo(31) EXCEPT !.neg = TRUE])
         /\ fless(v, PowerOfTwo(31))
    ELSE IF to = number.U32
    THEN fless([PowerOfTwo(0) EXCEPT !.neg = TRUE], v) /\ fless(v, PowerOfTwo(32))
    ELSE IF to = number.I64
    THEN ~fless(v, [PowerOfTwo(63) EXCEPT !.neg = TRUE]) /\ fless(v, PowerOfTwo(63))
    ELSE fless([PowerOfTwo(0) EXCEPT !.neg = TRUE], v) /\ fless(v, PowerOfTwo(64))
    ) : from \in {from_}, to \in {to_}, v \in {v_}} : TRUE

\* number.Min(t): uint64 of the int math.MinInt32 or math.MinInt64
numberMin(t_) ==
  CHOOSE once_ \in {(
    IF t = number.I32 THEN Int32(MinInt32Word)
    ELSE IF t = number.I64 THEN MinInt64Word
    ELSE Zero64
    ) : t \in {t_}} : TRUE

\* number.Max(t)
numberMax(t_) ==
  CHOOSE once_ \in {(
    IF t = number.I32 THEN MaxInt32Word
    ELSE IF t = number.I64 THEN MaxInt64Word
    ELSE IF t = number.U32 THEN MaxUint32Word
    ELSE AllOnes64
    ) : t \in {t_}} : TRUE

\* the conversion int64(f) of a float within the range of the target: the
\* fraction is discarded
toInt64(f_) ==
  CHOOSE once_ \in {(
    IF mathTrunc(f).cls = "zero" THEN Zero64
    ELSE IF f.neg THEN Neg64(Shl64(W(mathTrunc(f).m), mathTrunc(f).x))
    ELSE Shl64(W(mathTrunc(f).m), mathTrunc(f).x)
    ) : f \in {f_}} : TRUE

\* the conversions of FloatTruncate: uint64(int32(f)), uint64(int64(f)),
\* uint64(uint32(f)) and uint64(f)
truncated(to_, f_) ==
  CHOOSE once_ \in {(
    IF to = number.I32 THEN Int32(toInt64(f))
    ELSE IF to = number.U32 THEN Uint32(toInt64(f))
    ELSE toInt64(f)
    ) : to \in {to_}, f \in {f_}} : TRUE

\* FloatTruncate once floatBits is a float f
truncateFloat(from_, to_, f_) ==
  CHOOSE once_ \in {(
    IF IsNaN(f) THEN [r |-> Zero64, trapCode |-> number.NanTrap]
    ELSE IF ~CanTruncate(from, to, f)
    THEN [r |-> IF Signbit(f) THEN numberMin(to) ELSE numberMax(to),
          trapCode |-> number.ConvertTrap]
    ELSE [r |-> truncated(to, f), trapCode |-> number.NoTrap]
    ) : from \in {from_}, to \in {to_}, f \in {f_}} : TRUE

\* number.FloatTruncate(from, to, floatBits): the result and the trap code
FloatTruncate(from_, to_, floatBits_) ==
  CHOOSE once_ \in {(
    IF from = number.F32
    THEN truncateFloat(from, to, Float32frombits(Uint32(floatBits)))
    ELSE truncateFloat(from, to, Float64frombits(floatBits))
    ) : from \in {from_}, to \in {to_}, floatBits \in {floatBits_}} : TRUE

(***************************************************************************)
(* The floating-point opcodes of interpret.                                *)
(***************************************************************************)
\* Frame.readUint32 and Frame.readUint64 on the current frame: the n bytes
\* after ip, little-endian, in front of regs.  The bodies of the modules
\* hold every immediate in full
readFixed(s_, n_) ==
  CHOOSE once_ \in {(
    IF Halted(s) THEN s
    ELSE CASE currentFrame(s).ip + 1 + n <= Len(instructions(currentFrame(s))) ->
           [SetIp(s, currentFrame(s).ip + n) EXCEPT
              !.regs = <<Mk([i \in 1..8 |->
                              IF i <= n
                              THEN instructions(currentFrame(s))[currentFrame(s).ip + 1 + i]
                              ELSE 0])>> \o @]
    ) : s \in {s_}, n \in {n_}} : TRUE

readUint32(s) == readFixed(s, 4)

readUint64(s) == readFixed(s, 8)

\* f32.const and f64.const
execFloatConst(s_, op_) ==
  CHOOSE once_ \in {(
    IF op = Op.F32Const THEN constPush(readUint32(s)) ELSE constPush(readUint64(s))
    ) : s \in {s_}, op \in {op_}} : TRUE

\* a pushFloat32 that pushes a NaN as the hardware made it, sign bit set
pushFloat32AsIs(s_, val_) ==
  CHOOSE once_ \in {(
    IF IsNaN(val) THEN push(s, Or64(f32CanonicalNaNBits, f32SignMask))
    ELSE push(s, Float32bits(val))
    ) : s \in {s_}, val \in {val_}} : TRUE

\* vm.pushFloat32(val)
pushFloat32(s_, val_) ==
  CHOOSE once_ \in {(
    IF IsNaN(val) THEN push(s, f32CanonicalNaNBits) ELSE push(s, Float32bits(val))
    ) : s \in {s_}, val \in {val_}} : TRUE

\* vm.pushFloat64(val)
pushFloat64(s_, val_) ==
  CHOOSE once_ \in {(
    IF IsNaN(val) THEN push(s, f64CanonicalNaNBits) ELSE push(s, Float64bits(val))
    ) : s \in {s_}, val \in {val_}} : TRUE

\* the cases F32Add..F32Max: c of a and b
f32Binop(op_, a_, b_) ==
  CHOOSE once_ \in {(
    IF op = Op.F32Add THEN float32(fadd(a, b))
    ELSE IF op = Op.F32Sub THEN float32(fsub(a, b))
    ELSE IF op = Op.F32Mul THEN float32(fmul(a, b))
    ELSE IF op = Op.F32Div THEN float32(fdiv(a, b))
    ELSE IF op = Op.F32Min THEN float32(mathMin(float64(a), float64(b)))
    ELSE float32(mathMax(float64(a), float64(b)))
    ) : op \in {op_}, a \in {a_}, b \in {b_}} : TRUE

\* the cases F64Add..F64Max
f64Binop(op_, a_, b_) ==
  CHOOSE once_ \in {(
    IF op = Op.F64Add THEN float64(fadd(a, b))
    ELSE IF op = Op.F64Sub THEN float64(fsub(a, b))
    ELSE IF op = Op.F64Mul THEN float64(fmul(a, b))
    ELSE IF op = Op.F64Div THEN float64(fdiv(a, b))
    ELSE IF op = Op.F64Min THEN mathMin(a, b)
    ELSE mathMax(a, b)
    ) : op \in {op_}, a \in {a_}, b \in {b_}} : TRUE

\* the cases Ceil..Sqrt of both widths: r of f (a float64)
floatUnop(op_, f_) ==
  CHOOSE once_ \in {(
    IF op \in {Op.F32Ceil, Op.F64Ceil} THEN mathCeil(f)
    ELSE IF op \in {Op.F32Floor, Op.F64Floor} THEN mathFloor(f)
    ELSE IF op \in {Op.F32Trunc, Op.F64Trunc} THEN mathTrunc(f)
    ELSE IF op \in {Op.F32Nearest, Op.F64Nearest} THEN mathRoundToEven(f)
    ELSE mathSqrt(f)
    ) : op \in {op_}, f \in {f_}} : TRUE

\* a binary operator after its pops: regs = <<aBits, bBits>>
floatBinopApply(s_, op_) ==
  CHOOSE once_ \in {(
    IF Halted(s) THEN s
    ELSE IF op \in F32Ops
    THEN pushFloat32(s, f32Binop(op, Float32frombits(Uint32(s.regs[1])),
                                 Float32frombits(Uint32(s.regs[2]))))
    ELSE pushFloat64(s, f64Binop(op, Float64frombits(s.regs[1]),
                                 Float64frombits(s.regs[2])))
    ) : s \in {s_}, op \in {op_}} : TRUE

\* a unary operator after its pop
floatUnopApply(s_, op_) ==
  CHOOSE once_ \in {(
    IF Halted(s) THEN s
    ELSE IF op \in F32Ops
    THEN pushFloat32(s, float32(floatUnop(op,
                          float64(Float32frombits(Uint32(s.regs[1]))))))
    ELSE pushFloat64(s, floatUnop(op, Float64frombits(s.regs[1])))
    ) : s \in {s_}, op \in {op_}} : TRUE

\* copysign after its pops: cBits := aBits&^mask | bBits&mask
copysignApply(s_, op_) ==
  CHOOSE once_ \in {(
    IF Halted(s) THEN s
    ELSE IF op = Op.F32Copysign
    THEN push(s, Or64(AndNot64(Uint32(s.regs[1]), f32SignMask),
                      And64(Uint32(s.regs[2]), f32SignMask)))
    ELSE push(s, Or64(AndNot64(s.regs[1], f64SignMask),
                      And64(s.regs[2], f64SignMask)))
    ) : s \in {s_}, op \in {op_}} : TRUE

\* neg and abs after their pop
signApply(s_, op_) ==
  CHOOSE once_ \in {(
    IF Halted(s) THEN s
    ELSE IF op = Op.F32Neg THEN push(s, Xor64(Uint32(s.regs[1]), f32SignMask))
    ELSE IF op = Op.F32Abs THEN push(s, AndNot64(Uint32(s.regs[1]), f32SignMask))
    ELSE IF op = Op.F64Neg THEN push(s, Xor64(s.regs[1], f64SignMask))
    ELSE push(s, AndNot64(s.regs[1], f64SignMask))
    ) : s \in {s_}, op \in {op_}} : TRUE

\* the cases of the switch for the f32 and f64 arithmetic
execFloat(s_, op_) ==
  CHOOSE once_ \in {(
    IF op \in FloatBinops THEN floatBinopApply(pop(pop(s)), op)
    ELSE IF op \in {Op.F32Copysign, Op.F64Copysign} THEN copysignApply(pop(pop(s)), op)
    ELSE IF op \in FloatUnops THEN floatUnopApply(pop(s), op)
    ELSE signApply(pop(s), op)
    ) : s \in {s_}, op \in {op_}} : TRUE

\* the float type an iN.trunc opcode converts from
truncFrom(op_) ==
  CHOOSE once_ \in {(
    IF op \in {Op.I32TruncSF32, Op.I32TruncUF32, Op.I64TruncSF32, Op.I64TruncUF32}
    THEN number.F32 ELSE number.F64
    ) : op \in {op_}} : TRUE

\* the integer type an iN.trunc opcode converts to
truncTo(op_) ==
  CHOOSE once_ \in {(
    IF op \in {Op.I32TruncSF32, Op.I32TruncSF64} THEN number.I32
    ELSE IF op \in {Op.I32TruncUF32, Op.I32TruncUF64} THEN number.U32
    ELSE IF op \in {Op.I64TruncSF32, Op.I64TruncSF64} THEN number.I64
    ELSE number.U64
    ) : op \in {op_}} : TRUE

\* the end of the trunc cases: r is FloatTruncate's result
truncResult(s_, r_) ==
  CHOOSE once_ \in {(
    IF r.trapCode = number.NanTrap THEN Panic(s, "invalid conversion to integer")
    ELSE IF r.trapCode = number.ConvertTrap THEN Panic(s, "integer overflow")
    ELSE push(s, r.r)
    ) : s \in {s_}, r \in {r_}} : TRUE

\* iN.trunc after its pop
truncApply(s_, op_) ==
  CHOOSE once_ \in {(
    IF Halted(s) THEN s
    ELSE truncResult(s, FloatTruncate(truncFrom(op), truncTo(op), s.regs[1]))
    ) : s \in {s_}, op \in {op_}} : TRUE

\* the cases I32TruncSF32..I32TruncUF64 and I64TruncSF32..I64TruncUF64
execTrunc(s_, op_) ==
  CHOOSE once_ \in {(
    truncApply(pop(s), op)
    ) : s \in {s_}, op \in {op_}} : TRUE

\* the float type and the integer type of the sub-opcodes 0..7 of 0xFC
satFrom(subop_) ==
  CHOOSE once_ \in {(
    IF subop \in {0, 1, 4, 5} THEN number.F32 ELSE number.F64
    ) : subop \in {subop_}} : TRUE

satTo(subop_) ==
  CHOOSE once_ \in {(
    IF subop \in {0, 2} THEN number.I32
    ELSE IF subop \in {1, 3} THEN number.U32
    ELSE IF subop \in {4, 6} THEN number.I64
    ELSE number.U64
    ) : subop \in {subop_}} : TRUE

\* a case of the switch on subop after its pop: regs = <<value, subop>>
satApply(s_) ==
  CHOOSE once_ \in {(
    IF Halted(s) THEN s
    ELSE push(s, FloatTruncate(satFrom(IntOf(s.regs[2])), satTo(IntOf(s.regs[2])),
                               s.regs[1]).r)
    ) : s \in {s_}} : TRUE

\* the switch on subop, subop in regs[1]: no case for a subop above 7
satSwitch(s_) ==
  CHOOSE once_ \in {(
    IF Halted(s) THEN s
    ELSE IF IntOf(s.regs[1]) \in 0..7 THEN satApply(pop(s))
    ELSE s
    ) : s \in {s_}} : TRUE

\* the case ITruncSatF
execITruncSatF(s_) ==
  CHOOSE once_ \in {(
    satSwitch(readLEB(s, 1, FALSE))
    ) : s \in {s_}} : TRUE

\* skipInstructions on block, loop and if without vm.breakDepth++
skipBlockSameDepth(s_) ==
  CHOOSE once_ \in {(
    s
    ) : s \in {s_}} : TRUE

\* skipInstructions on block, loop and if: the block is still pushed
skipBlock(s_) ==
  CHOOSE once_ \in {(
    IF Halted(s) THEN s ELSE [s EXCEPT !.breakDepth = @ + 1]
    ) : s \in {s_}} : TRUE

\* skipInstructions on br_table: i of the targetCount + 1 depths were read.
\* At the end of the body leb128.Read consumes nothing and returns 0 without
\* an error, so the iterations that are left change nothing
RECURSIVE skipTargetsFrom(_, _, _)
skipTargetsFrom(s_, i_, targetCount_) ==
  CHOOSE once_ \in {(
      IF Halted(s) \/ i >= targetCount + 1 THEN s
      ELSE IF hasEnded(currentFrame(s)) THEN s
      ELSE skipTargetsFrom(readLEB(s, 32, FALSE), i + 1, targetCount)
    ) : s \in {s_}, i \in {i_}, targetCount \in {targetCount_}} : TRUE

\* skipInstructions on br_table: targetCount in regs[1]
skipTargets(s_) ==
  CHOOSE once_ \in {(
    IF Halted(s) THEN s ELSE skipTargetsFrom(s, 0, IntOf(s.regs[1]))
    ) : s \in {s_}} : TRUE

\* a skipInstructions that is entered after burnGasForOp: the skipped opcode
\* is charged
skipInstructionsCharged(s_, op_) ==
  CHOOSE once_ \in {(
      IF op \in {Op.Block, Op.Loop, Op.If}
      THEN skipBlock(enterBlock(readLEB(burnGasForOp(s, op), 32, TRUE),
                                getBlockType(op)))
      ELSE IF op \in {Op.Br, Op.BrIf, Op.Call, Op.I32Const}
              \/ (Op.GetLocal <= op /\ op <= Op.SetGlobal)
      THEN readLEB(burnGasForOp(s, op), 32, FALSE)
      ELSE IF op = Op.I64Const THEN readLEB(burnGasForOp(s, op), 64, FALSE)
      ELSE IF op = Op.F32Const THEN readUint32(burnGasForOp(s, op))
      ELSE IF op = Op.F64Const THEN readUint64(burnGasForOp(s, op))
      ELSE IF Op.I32Load <= op /\ op <= Op.I64Store32
      THEN readLEB(readLEB(burnGasForOp(s, op), 32, FALSE), 32, FALSE)
      ELSE IF op \in {Op.MemorySize, Op.MemoryGrow}
      THEN readLEB(burnGasForOp(s, op), 1, FALSE)
      ELSE IF op = Op.CallIndirect
      THEN readLEB(readLEB(burnGasForOp(s, op), 32, FALSE), 1, FALSE)
      ELSE IF op = Op.BrTable
      THEN skipTargets(readLEB(burnGasForOp(s, op), 32, FALSE))
      ELSE burnGasForOp(s, op)
    ) : s \in {s_}, op \in {op_}} : TRUE

\* VM.skipInstructions for the opcodes it skips (every one but end and else):
\* the immediates are read
skipInstructions(s_, op_) ==
  CHOOSE once_ \in {(
      IF op \in {Op.Block, Op.Loop, Op.If}
      THEN skipBlock(enterBlock(readLEB(s, 32, TRUE), getBlockType(op)))
      ELSE IF op \in {Op.Br, Op.BrIf, Op.Call, Op.I32Const}
              \/ (Op.GetLocal <= op /\ op <= Op.SetGlobal)
      THEN readLEB(s, 32, FALSE)
      ELSE IF op = Op.I64Const THEN readLEB(s, 64, FALSE)
      ELSE IF op = Op.F32Const THEN readUint32(s)
      ELSE IF op = Op.F64Const THEN readUint64(s)
      ELSE IF Op.I32Load <= op /\ op <= Op.I64Store32
      THEN readLEB(readLEB(s, 32, FALSE), 32, FALSE)
      ELSE IF op \in {Op.MemorySize, Op.MemoryGrow} THEN readLEB(s, 1, FALSE)
      ELSE IF op = Op.CallIndirect
      THEN readLEB(readLEB(s, 32, FALSE), 1, FALSE)
      ELSE IF op = Op.BrTable THEN skipTargets(readLEB(s, 32, FALSE))
      ELSE s
    ) : s \in {s_}, op \in {op_}} : TRUE

\* the cases of the switch, by family
execControl(s_, op_) ==
  CHOOSE once_ \in {(
      IF op = Op.Unreachable THEN Panic(s, "unreachable")
      ELSE IF op = Op.Nop THEN s
      ELSE IF op \in {Op.Block, Op.Loop} THEN execBlock(s, op)
      ELSE IF op = Op.If THEN execIf(s)
      ELSE IF op = Op.Else THEN execElse(s)
      ELSE execEnd(s)
    ) : s \in {s_}, op \in {op_}} : TRUE

execBranch(s_, op_) ==
  CHOOSE once_ \in {(
      IF op = Op.Br THEN execBr(s)
      ELSE IF op = Op.BrIf THEN execBrIf(s)
      ELSE IF op = Op.BrTable THEN execBrTable(s)
      ELSE execReturn(s)
    ) : s \in {s_}, op \in {op_}} : TRUE

execCallOp(s_, op_) ==
  CHOOSE once_ \in {(
    IF op = Op.Call THEN execCall(s) ELSE execCallIndirect(s)
    ) : s \in {s_}, op \in {op_}} : TRUE

execParametric(s_, op_) ==
  CHOOSE once_ \in {(
    IF op = Op.Drop THEN execDrop(s) ELSE execSelect(s)
    ) : s \in {s_}, op \in {op_}} : TRUE

execVariable(s_, op_) ==
  CHOOSE once_ \in {(
      IF op = Op.GetLocal THEN execGetLocal(s)
      ELSE IF op = Op.SetLocal THEN execSetLocal(s)
      ELSE IF op = Op.TeeLocal THEN execTeeLocal(s)
      ELSE IF op = Op.GetGlobal THEN execGetGlobal(s)
      ELSE execSetGlobal(s)
    ) : s \in {s_}, op \in {op_}} : TRUE

execMemory(s_, op_) ==
  CHOOSE once_ \in {(
      IF op = Op.MemorySize THEN execMemorySize(s) ELSE execMemoryGrow(s)
    ) : s \in {s_}, op \in {op_}} : TRUE

execConst(s_, op_) ==
  CHOOSE once_ \in {(
      IF op = Op.I32Const THEN execI32Const(s) ELSE execI64Const(s)
    ) : s \in {s_}, op \in {op_}} : TRUE

execI32(s_, op_) ==
  CHOOSE once_ \in {(
      IF op = Op.I32Eqz THEN execI32Eqz(s) ELSE execI32Binop(s, op)
    ) : s \in {s_}, op \in {op_}} : TRUE

(***************************************************************************)
(* One iteration of the loop of VM.interpret.                              *)
(***************************************************************************)
\* interpret is inside its loop, on a frame that has instructions left
AtInstruction ==
  pc = "running" /\ framesIndex > 0 /\ ~hasEnded(frames[Len(frames)])

\* the opcode frame.ip++ fetches (0 stands for a fetch beyond the body)
nextOp ==
  IF frames[Len(frames)].ip + 2 \in 1..Len(instructions(frames[Len(frames)]))
  THEN instructions(frames[Len(frames)])[frames[Len(frames)].ip + 2]
  ELSE 0

\* the state after frame.ip++ and the fetch
fetched ==
  IF frames[Len(frames)].ip + 2 \in 1..Len(instructions(frames[Len(frames)]))
  THEN SetIp(VMState, frames[Len(frames)].ip + 1)
  ELSE Panic(SetIp(VMState, frames[Len(frames)].ip + 1), RuntimePanic)

\* the instruction is skipped: the VM is not operative and the opcode is
\* neither end nor else
skipped == breakDepth # -1 /\ nextOp \notin {Op.End, Op.Else}

\* how the invocation goes on after r: log.Fatal exits the process, a panic
\* of type *ExecError and a returned error end Invoke with (0, err), any
\* other panic leaves Invoke; start: the invocation is NewVM's, cont: the
\* position when r is no failure
Commit(result, start, cont) ==
  \E r \in {result} :
    /\ stack' = r.stack
    /\ sp' = r.sp
    /\ frames' = r.frames
    /\ blocks' = r.blocks
    /\ blocksIndex' = r.blocksIndex
    /\ breakDepth' = r.breakDepth
    /\ memory' = r.memory
    /\ globals' = r.globals
    /\ gas' = r.gas
    /\ ret' = Zero64
    /\ err' = IF r.fatal \/ r.panic = RuntimePanic THEN NoError
              ELSE IF r.panic # NoError THEN r.panic ELSE r.reterr
    /\ pc' = IF r.fatal THEN "exited"
             ELSE IF r.panic = RuntimePanic THEN "panicked"
             ELSE IF r.panic # NoError \/ r.reterr # NoError
                  THEN (IF start THEN "failed" ELSE "idle")
             ELSE cont
    /\ starting' = (start /\ cont = "running" /\ ~Halted(r))
    /\ UNCHANGED << Module, gasPolicy, transfer, decoder, leb >>

RECURSIVE pushAll(_, _, _)
pushAll(s_, args_, n_) ==
  CHOOSE once_ \in {(
      IF n = 0 THEN s ELSE push(pushAll(s, args, n - 1), args[n])
    ) : s \in {s_}, args \in {args_}, n \in {n_}} : TRUE

\* Invoke up to the call of interpret
invokeEntry(s_, fidx_, args_) ==
  CHOOSE once_ \in {(
      IF validateFuncArgs(fidx, Len(args)) = RuntimePanic
      THEN Panic(s, RuntimePanic)
      ELSE IF validateFuncArgs(fidx, Len(args)) # NoError
      THEN ReturnErr(s, validateFuncArgs(fidx, Len(args)))
      ELSE CallFunction(pushAll(s, args, Len(args)), fidx)
    ) : s \in {s_}, fidx \in {fidx_}, args \in {args_}} : TRUE

\* vm.initGlobals: the init expressions are i32.const
initGlobals == [i \in 1..Len(TheModule.Globals) |-> WS(TheModule.Globals[i].v)]

\* NewVM: the memory of the declared minimum with the data copied in, or
\* ErrOutOfBoundMemoryAccess
memoryInit(s_, n_, data_) ==
  CHOOSE once_ \in {(
      IF n * wasmPageSize < Len(data)
      THEN ReturnErr(s, "out of bounds memory access")
      ELSE [s EXCEPT !.memory = CopyData(NewMemory(n), data, Len(data))]
    ) : s \in {s_}, n \in {n_}, data \in {data_}} : TRUE

\* a NewVM that allocates the memory without charging for it
memorySetupUncharged(s_) ==
  CHOOSE once_ \in {(
      IF TheModule.HasMem
      THEN memoryInit(s, TheModule.Limits.Min, TheModule.Data)
      ELSE [s EXCEPT !.memory = NewMemory(1)]
    ) : s \in {s_}} : TRUE

\* NewVM: the memory and its gas
memorySetup(s_) ==
  CHOOSE once_ \in {(
      IF TheModule.HasMem
      THEN BurnGas(memoryInit(s, TheModule.Limits.Min, TheModule.Data),
                   GetCostForMalloc(gasPolicy, TheModule.Limits.Min))
      ELSE [s EXCEPT !.memory = NewMemory(1)]
    ) : s \in {s_}} : TRUE

\* NewVM: the globals, then the start function is entered
startEntry(s_) ==
  CHOOSE once_ \in {(
      IF Halted(s) THEN s
      ELSE IF TheModule.Start >= 0
           THEN invokeEntry([s EXCEPT !.globals = initGlobals], TheModule.Start,
                            << >>)
           ELSE [s EXCEPT !.globals = initGlobals]
    ) : s \in {s_}} : TRUE

\* NewVM up to the loop of the start function
newVMState ==
  IF gas.Used > gas.Limit THEN ReturnErr(VMState, ErrOutOfGas)
  ELSE startEntry(memorySetup(VMState))

(***************************************************************************)
(* The instances and the invocations that are explored.                    *)
(***************************************************************************)
\* invocations per instance
MaxInvokes == 2

\* the largest gas limit given to the control-flow module
MaxGas == 8

Free == [policy |-> "free", Limit |-> 0, Used |-> 0]

Simple(limit, used) == [policy |-> "simple", Limit |-> limit, Used |-> used]

Cfg(m, g) == [Module |-> m, policy |-> g.policy, Limit |-> g.Limit, Used |-> g.Used]

Configs ==
  {Cfg(ArithIdx, g) : g \in {Free, Simple(4, 0)}}
  \cup {Cfg(MemIdx, g) :
          g \in {Free, Simple(1000, 0), Simple(1028, 0), Simple(10, 20)}}
  \cup {Cfg(DataOverIdx, g) :
          g \in {Free, Simple(1000, 0), Simple(5000, 0), Simple(10, 20)}}
  \cup {Cfg(HostIdx, g) : g \in {Free}}
  \cup {Cfg(GrowIdx, g) : g \in {Free, Simple(2050, 0), Simple(5000, 0)}}
  \cup {Cfg(GrowMaxIdx, g) : g \in {Free}}
  \cup {Cfg(MinOverMaxIdx, g) : g \in {Free, Simple(5000, 0)}}
  \cup {Cfg(ControlIdx, g) :
          g \in {Free, Simple(10, 20), Simple(10, 4)}
                \cup {Simple(l, 0) : l \in 0..MaxGas}}
  \cup {Cfg(BranchIdx, g) : g \in {Free}}

Call(fidx, args) == [fidx |-> W(fidx), args |-> args]

\* dividend and divisor pairs: the most negative value by -1, by the largest
\* value and by 0, and an ordinary pair
Pairs32 ==
  { <<MinInt32Word, MaxUint32Word>>, <<MinInt32Word, MaxInt32Word>>,
    <<MinInt32Word, Zero64>>, <<Uint32(WS(-7)), W(2)>> }

Pairs64 ==
  { <<MinInt64Word, AllOnes64>>, <<MinInt64Word, MaxInt64Word>>,
    <<MinInt64Word, Zero64>>, <<WS(-7), W(2)>> }

\* addresses around the end of the one-page memory
Addresses == {Zero64, W(65532), W(65533), MaxUint32Word}

\* page counts around the two caps 65535 and 65536
Deltas == {Zero64, W(1), W(2), W(65534), W(65535), MaxUint32Word}

\* the invocations explored on module m; the unbounded recursion and the
\* endless loop of the control module are invoked under a metering policy
Calls(m, policy) ==
  IF m = ArithModule
  THEN {Call(f, p) : f \in 0..3, p \in Pairs32}
       \cup {Call(f, p) : f \in 4..7, p \in Pairs64}
  ELSE IF m = MemModule
  THEN {Call(0, <<a>>) : a \in Addresses}
       \cup {Call(f, << >>) : f \in {1, 2, 5}}
       \cup {Call(3, <<a, W(16909060)>>) : a \in {Zero64, W(65533)}}
       \cup {Call(4, <<Uint32(WS(-4)), MinInt64Word>>),
             Call(6, <<W(3)>>), Call(7, <<W(0)>>), Call(8, <<W(65529)>>),
             Call(9, <<W(65535), W(16909060)>>), Call(10, <<W(2)>>)}
  ELSE IF m.Funcs = GrowFuncs
  THEN {Call(0, <<d>>) : d \in Deltas} \cup {Call(1, << >>), Call(2, << >>)}
  ELSE IF m = HostModule
  THEN {Call(f, << >>) : f \in {2, 3, 5}}
  ELSE IF m = ControlModule
  THEN {Call(f, << >>) : f \in {3, 4, 7, 9, 10}}
       \cup {Call(f, << >>) : f \in IF policy = "simple" THEN {1, 2} ELSE {}}
       \cup {Call(f, <<a>>) : f \in {4, 5, 6, 8}, a \in {Zero64, W(5)}}
       \cup {Call(0, <<W(1), W(2)>>)}
  ELSE {Call(f, << >>) : f \in {1, 2, 3, 4, 5, 11, 19, 22}}
       \cup {[fidx |-> MinInt64Word, args |-> << >>]}
       \cup {Call(4, <<W(e)>>) : e \in 0..4}
       \cup {Call(f, <<a>>) : f \in {6, 7, 8, 10, 14, 16, 17, 20},
                               a \in {Zero64, W(5)}}
       \cup {Call(8, <<W(1)>>), Call(8, <<AllOnes64>>), Call(18, <<W(5)>>),
             Call(21, <<Zero64>>)}
       \cup {Call(f, <<a>>) : f \in {9, 12, 13}, a \in {W(2)}}
       \cup {Call(f, <<Add64(ShlBytes(One64, 4), W(1))>>) : f \in {8, 15}}
       \cup {Call(10, <<ShlBytes(One64, 4)>>)}
       \cup {Call(0, <<W(1), W(2)>>)}

(***************************************************************************)
(* The actions.                                                            *)
(***************************************************************************)
Init ==
  /\ \E c \in Configs :
       /\ Module = Modules[c.Module]
       /\ gasPolicy = c.policy
       /\ gas = [Limit |-> c.Limit, Used |-> c.Used]
  /\ stack = << >>
  /\ sp = 0
  /\ frames = << >>
  /\ blocks = << >>
  /\ blocksIndex = 0
  /\ breakDepth = -1
  /\ memory = [len |-> Zero64, data |-> << >>]
  /\ globals = << >>
  /\ pc = "new"
  /\ starting = FALSE
  /\ ret = Zero64
  /\ err = NoError
  /\ invokes = 0
  /\ invocation = [fidx |-> -1, idle |-> FALSE]
  /\ transfer = NoTransfer
  /\ decoder = NoDecoder
  /\ leb = NoLeb

\* NewVM(code, gasPolicy, gas, importResolver); a start function is run by
\* the interpreter steps below, with starting set
NewVM ==
  /\ pc = "new"
  /\ Commit(newVMState, TRUE,
            IF TheModule.Start >= 0 THEN "running" ELSE "idle")
  /\ invocation' = IF TheModule.Start >= 0
                   THEN [fidx |-> TheModule.Start, idle |-> TRUE]
                   ELSE invocation
  /\ UNCHANGED invokes

\* vm.Invoke(fidx, args...) up to the loop of interpret; fidx is a uint64
\* that Invoke converts with int(fidx)
Invoke(fidx, args) ==
  /\ pc = "idle"
  /\ invokes < MaxInvokes
  /\ invokes' = invokes + 1
  /\ invocation' = [fidx |-> IntOf(fidx),
                    idle |-> (sp = 0 /\ framesIndex = 0 /\ blocksIndex = 0)]
  /\ Commit(invokeEntry(VMState, IntOf(fidx), args), FALSE, "running")

\* interpret: no frame is left, the invocation returns the top of the stack
InterpretReturn ==
  /\ pc = "running"
  /\ framesIndex = 0
  /\ ret' = IF sp > 0 THEN StackAt(VMState, sp - 1) ELSE Zero64
  /\ sp' = IF sp > 0 THEN sp - 1 ELSE sp
  /\ err' = NoError
  /\ pc' = "idle"
  /\ starting' = FALSE
  /\ UNCHANGED << Module, gasPolicy, gas, stack, frames, blocks, blocksIndex,
                  breakDepth, memory, globals, invokes, invocation,
                  transfer, decoder, leb >>

\* interpret: the current frame has ended
PopFrame ==
  /\ pc = "running"
  /\ framesIndex > 0
  /\ hasEnded(frames[Len(frames)])
  /\ Commit(popFrame(VMState), starting, "running")
  /\ UNCHANGED << invokes, invocation >>

\* interpret: the VM is not operative and skipInstructions skips the opcode
Skip ==
  /\ AtInstruction
  /\ skipped
  /\ Commit(skipInstructions(fetched, nextOp), starting, "running")
  /\ UNCHANGED << invokes, invocation >>

\* interpret: the state after burnGasForOp for the opcode at hand
charged == burnGasForOp(fetched, nextOp)

\* interpret: burnGasForOp returns ErrOutOfGas
OutOfGas ==
  /\ AtInstruction
  /\ ~skipped
  /\ Halted(charged)
  /\ Commit(charged, starting, "running")
  /\ UNCHANGED << invokes, invocation >>

\* interpret: the opcode, one of ops, is not skipped and its gas is burnt
Executes(ops) ==
  /\ AtInstruction
  /\ ~skipped
  /\ nextOp \in ops
  /\ ~Halted(charged)

\* interpret: the cases of the switch for the structured control opcodes
ExecControl ==
  /\ Executes({Op.Unreachable, Op.Nop, Op.Block, Op.Loop, Op.If, Op.Else, Op.End})
  /\ Commit(execControl(charged, nextOp), starting, "running")
  /\ UNCHANGED << invokes, invocation >>

\* interpret: the cases of the switch for br, br_if, br_table and return
ExecBranch ==
  /\ Executes({Op.Br, Op.BrIf, Op.BrTable, Op.Return})
  /\ Commit(execBranch(charged, nextOp), starting, "running")
  /\ UNCHANGED << invokes, invocation >>

\* interpret: the cases of the switch for call and call_indirect
ExecCall ==
  /\ Executes({Op.Call, Op.CallIndirect})
  /\ Commit(execCallOp(charged, nextOp), starting, "running")
  /\ UNCHANGED << invokes, invocation >>

\* interpret: the cases of the switch for drop and select
ExecParametric ==
  /\ Executes({Op.Drop, Op.Select})
  /\ Commit(execParametric(charged, nextOp), starting, "running")
  /\ UNCHANGED << invokes, invocation >>

\* interpret: the cases of the switch for the local and global opcodes
ExecVariable ==
  /\ Executes(Op.GetLocal..Op.SetGlobal)
  /\ Commit(execVariable(charged, nextOp), starting, "running")
  /\ UNCHANGED << invokes, invocation >>

\* interpret: the cases of the switch for the load opcodes
ExecLoad ==
  /\ Executes(LoadOps)
  /\ Commit(execLoad(charged, nextOp), starting, "running")
  /\ UNCHANGED << invokes, invocation >>

\* interpret: the cases of the switch for the store opcodes
ExecStore ==
  /\ Executes(StoreOps)
  /\ Commit(execStore(charged, nextOp), starting, "running")
  /\ UNCHANGED << invokes, invocation >>

\* interpret: the cases of the switch for memory.size and memory.grow
ExecMemory ==
  /\ Executes({Op.MemorySize, Op.MemoryGrow})
  /\ Commit(execMemory(charged, nextOp), starting, "running")
  /\ UNCHANGED << invokes, invocation >>

\* interpret: the cases of the switch for i32.const and i64.const
ExecConst ==
  /\ Executes({Op.I32Const, Op.I64Const})
  /\ Commit(execConst(charged, nextOp), starting, "running")
  /\ UNCHANGED << invokes, invocation >>

\* interpret: the cases of the switch for the i32 comparisons and arithmetic
ExecI32 ==
  /\ Executes({Op.I32Eqz} \cup I32Binops)
  /\ Commit(execI32(charged, nextOp), starting, "running")
  /\ UNCHANGED << invokes, invocation >>

\* interpret: the cases of the switch for the i64 arithmetic
ExecI64 ==
  /\ Executes(I64Binops)
  /\ Commit(execI64Binop(charged, nextOp), starting, "running")
  /\ UNCHANGED << invokes, invocation >>

\* vm.BurnGas(cost) called by the embedder between invocations
BurnGasCall(cost) ==
  /\ pc = "idle"
  /\ invokes < MaxInvokes
  /\ invokes' = invokes + 1
  /\ Commit(BurnGas(VMState, cost), FALSE, "idle")
  /\ UNCHANGED invocation

\* the costs the embedder burns
GasCosts == {0, 2, 3000}

\* the iterations of the loop of interpret
InterpretLoop ==
  \/ InterpretReturn
  \/ PopFrame
  \/ Skip
  \/ OutOfGas
  \/ ExecControl
  \/ ExecBranch
  \/ ExecCall
  \/ ExecParametric
  \/ ExecVariable
  \/ ExecLoad
  \/ ExecStore
  \/ ExecMemory
  \/ ExecConst
  \/ ExecI32
  \/ ExecI64

Next ==
  \/ NewVM
  \/ \E c \in Calls(Module, gasPolicy) : Invoke(c.fidx, c.args)
  \/ \E cost \in GasCosts : BurnGasCall(cost)
  \/ InterpretLoop

Spec == Init /\ [][Next]_vars

\* vm.MemWrite(b, offset) called by the embedder between invocations; a
\* run-time panic leaves the call without a result
MemWrite(b, offset) ==
  /\ pc = "idle"
  /\ invokes < MaxInvokes
  /\ invokes' = invokes + 1
  /\ \E r \in {memWrite(VMState, b, offset)} :
       /\ memory' = r.memory
       /\ transfer' = [op |-> "MemWrite", offset |-> offset, b |-> b,
                       buf |-> r.b, n |-> r.n, err |-> r.err]
       /\ pc' = IF r.err = RuntimePanic THEN "panicked" ELSE "idle"
  /\ UNCHANGED << Module, gasPolicy, gas, stack, sp, frames, blocks,
                  blocksIndex, breakDepth, globals, starting, ret, err,
                  invocation, decoder, leb >>

\* vm.MemRead(b, offset) called by the embedder between invocations
MemRead(b, offset) ==
  /\ pc = "idle"
  /\ invokes < MaxInvokes
  /\ invokes' = invokes + 1
  /\ \E r \in {memRead(VMState, b, offset)} :
       /\ memory' = r.memory
       /\ transfer' = [op |-> "MemRead", offset |-> offset, b |-> b,
                       buf |-> r.b, n |-> r.n, err |-> r.err]
       /\ pc' = IF r.err = RuntimePanic THEN "panicked" ELSE "idle"
  /\ UNCHANGED << Module, gasPolicy, gas, stack, sp, frames, blocks,
                  blocksIndex, breakDepth, globals, starting, ret, err,
                  invocation, decoder, leb >>

\* the buffers the embedder passes: empty, one byte, and some with a zero
\* byte in them
Buffers == {<< >>, <<7>>, <<1, 0, 3>>, <<250, 251, 252, 253>>}

\* offsets around the two ends of the memory
Offsets == {-1, 0, 2} \cup {ToInt(memory.len) + d : d \in -3 .. 1}

\* an embedder that builds an instance and only reads and writes its memory
MemNext ==
  \/ NewVM
  \/ \E b \in Buffers, offset \in Offsets : MemWrite(b, offset)
  \/ \E b \in Buffers, offset \in Offsets : MemRead(b, offset)

MemSpec == Init /\ [][MemNext]_vars

\* ReadModule(wasmBytes) up to its loop: readMagic and readVersion
ReadHeader ==
  /\ decoder.status = "start"
  /\ \E br \in {readVersion(readMagic(decoder.br))} :
       decoder' = IF br.err = NoError
                  THEN [decoder EXCEPT !.br = br, !.status = "sections"]
                  ELSE [decoder EXCEPT !.br = br, !.status = "error",
                                       !.err = br.err]
  /\ UNCHANGED << Module, gasPolicy, gas, stack, sp, frames, blocks,
                  blocksIndex, breakDepth, memory, globals, pc, starting,
                  ret, err, invokes, invocation, transfer, leb >>

\* one iteration of the loop of ReadModule: readSection, and when it
\* returns io.EOF the index spaces are populated and the module is returned
\* with the section structs assigned so far, those of a section whose
\* reads ended in io.EOF included
ReadSection ==
  /\ decoder.status = "sections"
  /\ \E br \in {readSection(decoder.br, decoder.lastID)} :
       /\ decoder' =
            IF br.err = NoError
            THEN [decoder EXCEPT !.br = br, !.lastID = br.val,
                                 !.sections = Append(@, br.val),
                                 !.assigned = sectionsAssigned(@, decoder.br,
                                                decoder.lastID)]
            ELSE IF br.err = EOF
            THEN [decoder EXCEPT !.br = br,
                    !.assigned = sectionsAssigned(@, decoder.br,
                                   decoder.lastID),
                    !.status = IF populate(decoder.sections) = NoError
                               THEN "done" ELSE "error",
                    !.err = populate(decoder.sections)]
            ELSE [decoder EXCEPT !.br = br, !.err = br.err,
                    !.assigned = sectionsAssigned(@, decoder.br,
                                   decoder.lastID),
                    !.status = IF br.err = RuntimePanic THEN "panicked"
                               ELSE IF br.err = LogFatal THEN "exited"
                               ELSE "error"]
       /\ Module' = IF br.err = EOF /\ populate(decoder.sections) = NoError
                    THEN Decoded(sectionsAssigned(decoder.assigned,
                                   decoder.br, decoder.lastID))
                    ELSE Module
  /\ UNCHANGED << gasPolicy, gas, stack, sp, frames, blocks, blocksIndex,
                  breakDepth, memory, globals, pc, starting, ret, err,
                  invokes, invocation, transfer, leb >>

\* the encodings of a type section with no type and with the type
\* () -> i32, of a custom section with one byte and with none, of a memory
\* section with one memory of at least one page, of a start section, of a
\* section with the unknown id 12, and of a type section, a memory section
\* and a start section whose payload ends before their entries
Encodings ==
  { <<1, 1, 0>>, <<1, 5, 1, 96, 0, 1, 127>>, <<0, 1, 255>>, <<0, 0>>,
    <<5, 3, 1, 0, 1>>, <<8, 1, 0>>, <<12, 0>>,
    <<1, 1, 1>>, <<5, 1, 1>>, <<8, 0>> }

MaxSections == 3

RECURSIVE Flatten(_)
Flatten(seqs) ==
  IF seqs = << >> THEN << >> ELSE Head(seqs) \o Flatten(Tail(seqs))

\* the inputs of ReadModule: the magic number and the version followed by
\* up to MaxSections sections, and every prefix of such a sequence of bytes
Binaries ==
  {Magic \o Version \o Flatten(layout) :
     layout \in UNION {[1..n -> Encodings] : n \in 0..MaxSections}}

Inputs == UNION {{SubSeq(b, 1, k) : k \in 0..Len(b)} : b \in Binaries}

\* the capacity of the slice the embedder passes beyond its length
Slacks == {0, 512}

\* an embedder that has a byte slice decoded
DecodeInit ==
  /\ \E b \in Inputs, slack \in Slacks :
       decoder = [NoDecoder EXCEPT !.br = NewByteReader(b, Len(b) + slack),
                                   !.status = "start"]
  /\ Module = NoModule
  /\ gasPolicy = "free"
  /\ gas = [Limit |-> 0, Used |-> 0]
  /\ stack = << >>
  /\ sp = 0
  /\ frames = << >>
  /\ blocks = << >>
  /\ blocksIndex = 0
  /\ breakDepth = -1
  /\ memory = [len |-> Zero64, data |-> << >>]
  /\ globals = << >>
  /\ pc = "new"
  /\ starting = FALSE
  /\ ret = Zero64
  /\ err = NoError
  /\ invokes = 0
  /\ invocation = [fidx |-> -1, idle |-> FALSE]
  /\ transfer = NoTransfer
  /\ leb = NoLeb

DecodeNext == ReadHeader \/ ReadSection

DecodeSpec == DecodeInit /\ [][DecodeNext]_vars

(***************************************************************************)
(* The specification of the instances of the float module: the operands of *)
(* the floating-point opcodes and of the truncations are the arguments of  *)
(* one invocation.                                                         *)
(***************************************************************************)
\* interpret: the cases of the switch for f32.const and f64.const
ExecFloatConst ==
  /\ Executes({Op.F32Const, Op.F64Const})
  /\ Commit(execFloatConst(charged, nextOp), starting, "running")
  /\ UNCHANGED << invokes, invocation >>

\* interpret: the cases of the switch for the f32 and f64 arithmetic
ExecFloat ==
  /\ Executes(F32Ops \cup F64Ops)
  /\ Commit(execFloat(charged, nextOp), starting, "running")
  /\ UNCHANGED << invokes, invocation >>

\* interpret: the cases of the switch for i32.trunc and i64.trunc
ExecTrunc ==
  /\ Executes(TruncOps)
  /\ Commit(execTrunc(charged, nextOp), starting, "running")
  /\ UNCHANGED << invokes, invocation >>

\* interpret: the case ITruncSatF
ExecITruncSatF ==
  /\ Executes({Op.ITruncSatF})
  /\ Commit(execITruncSatF(charged), starting, "running")
  /\ UNCHANGED << invokes, invocation >>

\* the bits of NaNs: the canonical one, a negative one with a payload and a
\* signalling one
NaNs32 ==
  {f32CanonicalNaNBits, <<1, 0, 192, 255, 0, 0, 0, 0>>, <<0, 0, 160, 127, 0, 0, 0, 0>>}

NaNs64 ==
  {f64CanonicalNaNBits, <<1, 0, 0, 0, 0, 0, 248, 255>>, <<0, 0, 0, 0, 0, 0, 244, 127>>}

\* the values of the operands: the infinities, the zeros and some finite
\* values, as (-1)^neg * m * 2^x
Specials == {Inf(n) : n \in BOOLEAN} \cup {FZero(n) : n \in BOOLEAN}

\* 1 and -2
Ordinary == {Fin(FALSE, 1, 0), Fin(TRUE, 1, 1)}

\* 0.5, -0.5, 1.5, -1.5 and 2.5
Fractions ==
  {Fin(FALSE, 1, -1), Fin(TRUE, 1, -1), Fin(FALSE, 3, -1), Fin(TRUE, 3, -1),
   Fin(FALSE, 5, -1)}

\* 4, 2.25 and -0.25
Squares == {Fin(FALSE, 1, 2), Fin(FALSE, 9, -2), Fin(TRUE, 1, -2)}

\* values at the ends of the ranges of the integer types: -1, 2^31 - 128,
\* 2^31, -2^31, -2^31 - 256, 2^32 - 256, 2^32, 2^63, -2^63, 2^64
Ends ==
  {Fin(TRUE, 1, 0), Fin(FALSE, 16777215, 7), Fin(FALSE, 1, 31),
   Fin(TRUE, 1, 31), Fin(TRUE, 8388609, 8), Fin(FALSE, 16777215, 8),
   Fin(FALSE, 1, 32), Fin(FALSE, 1, 63), Fin(TRUE, 1, 63), Fin(FALSE, 1, 64)}

\* the bits of the values vs in the format of the parameter type t
BitsOf(t, vs) ==
  IF t = F32 THEN {Float32bits(v) : v \in vs} \cup NaNs32
  ELSE {Float64bits(v) : v \in vs} \cup NaNs64

\* the arguments of function f (f + 1 in Funcs) of the float module
FloatArgs(f) ==
  LET t  == FloatModule.Funcs[f + 1].ParamTypes
      op == FloatModule.Funcs[f + 1].Exprs[Len(FloatModule.Funcs[f + 1].Exprs)]
  IN IF Len(t) = 2
     THEN {<<a, b>> : a, b \in BitsOf(t[1], Specials \cup Ordinary)}
     ELSE IF Len(t) = 0 THEN {<< >>}
     ELSE IF f >= 28
     THEN {<<a>> : a \in BitsOf(t[1], Specials \cup Fractions \cup Ends)}
     ELSE IF op \in {Op.F32Sqrt, Op.F64Sqrt}
     THEN {<<a>> : a \in BitsOf(t[1], Specials \cup Ordinary \cup Squares)}
     ELSE {<<a>> : a \in BitsOf(t[1], Specials \cup Ordinary \cup Fractions)}

FloatCalls == UNION {{Call(f, args) : args \in FloatArgs(f)} : f \in 0..53}

\* the invocations of one instance
MaxFloatInvokes == 1

\* a gas limit no invocation of the float module exhausts
FloatGas == 5000

FloatInit ==
  /\ Module = FloatModule
  /\ \E g \in {Free, Simple(FloatGas, 0)} :
       /\ gasPolicy = g.policy
       /\ gas = [Limit |-> g.Limit, Used |-> g.Used]
  /\ stack = << >>
  /\ sp = 0
  /\ frames = << >>
  /\ blocks = << >>
  /\ blocksIndex = 0
  /\ breakDepth = -1
  /\ memory = [len |-> Zero64, data |-> << >>]
  /\ globals = << >>
  /\ pc = "new"
  /\ starting = FALSE
  /\ ret = Zero64
  /\ err = NoError
  /\ invokes = 0
  /\ invocation = [fidx |-> -1, idle |-> FALSE]
  /\ transfer = NoTransfer
  /\ decoder = NoDecoder
  /\ leb = NoLeb

\* the iterations of the loop of interpret on the float module, under the
\* free policy and under the simple policy with a limit that pays for every
\* opcode of an invocation
FloatLoop ==
  \/ InterpretReturn
  \/ PopFrame
  \/ Skip
  \/ ExecControl
  \/ ExecBranch
  \/ ExecParametric
  \/ ExecVariable
  \/ ExecConst
  \/ ExecFloatConst
  \/ ExecFloat
  \/ ExecTrunc
  \/ ExecITruncSatF

FloatNext ==
  \/ NewVM
  \/ \E c \in FloatCalls :
       invokes < MaxFloatInvokes /\ Invoke(c.fidx, c.args)
  \/ FloatLoop

FloatSpec == FloatInit /\ [][FloatNext]_vars

(***************************************************************************)
(* The specification of the instances of the stack module: invocations     *)
(* that leave values, blocks and frames behind, each followed by another   *)
(* invocation on the same instance.                                        *)
(***************************************************************************)
StackCalls ==
  {Call(f, << >>) : f \in {0, 2, 5, 6, 8, 9}}
  \cup {Call(f, <<a>>) : f \in {4, 10}, a \in {Zero64, W(2)}}
  \cup {Call(1, <<a>>) : a \in {W(1), W(2)}}

\* the invocations of one instance
MaxStackInvokes == 2

StackInit ==
  /\ Module = StackModule
  /\ \E g \in {Free, Simple(3, 0)} :
       /\ gasPolicy = g.policy
       /\ gas = [Limit |-> g.Limit, Used |-> g.Used]
  /\ stack = << >>
  /\ sp = 0
  /\ frames = << >>
  /\ blocks = << >>
  /\ blocksIndex = 0
  /\ breakDepth = -1
  /\ memory = [len |-> Zero64, data |-> << >>]
  /\ globals = << >>
  /\ pc = "new"
  /\ starting = FALSE
  /\ ret = Zero64
  /\ err = NoError
  /\ invokes = 0
  /\ invocation = [fidx |-> -1, idle |-> FALSE]
  /\ transfer = NoTransfer
  /\ decoder = NoDecoder
  /\ leb = NoLeb

\* the iterations of the loop of interpret on the stack module
StackLoop ==
  \/ InterpretReturn
  \/ PopFrame
  \/ Skip
  \/ OutOfGas
  \/ ExecControl
  \/ ExecBranch
  \/ ExecCall
  \/ ExecParametric
  \/ ExecVariable
  \/ ExecConst
  \/ ExecI32

StackNext ==
  \/ NewVM
  \/ \E c \in StackCalls :
       invokes < MaxStackInvokes /\ Invoke(c.fidx, c.args)
  \/ StackLoop

StackSpec == StackInit /\ [][StackNext]_vars

(***************************************************************************)
(* The specification of the instances of the bounds module: one invocation *)
(* that fills the value stack, the frames or the blocks.                   *)
(***************************************************************************)
BoundsCalls == {Call(f, << >>) : f \in 0..5}

\* the invocations of one instance
MaxBoundsInvokes == 1

BoundsInit ==
  /\ Module = BoundsModule
  /\ gasPolicy = Free.policy
  /\ gas = [Limit |-> Free.Limit, Used |-> Free.Used]
  /\ stack = << >>
  /\ sp = 0
  /\ frames = << >>
  /\ blocks = << >>
  /\ blocksIndex = 0
  /\ breakDepth = -1
  /\ memory = [len |-> Zero64, data |-> << >>]
  /\ globals = << >>
  /\ pc = "new"
  /\ starting = FALSE
  /\ ret = Zero64
  /\ err = NoError
  /\ invokes = 0
  /\ invocation = [fidx |-> -1, idle |-> FALSE]
  /\ transfer = NoTransfer
  /\ decoder = NoDecoder
  /\ leb = NoLeb

\* the iterations of the loop of interpret on the bounds module
BoundsLoop ==
  \/ InterpretReturn
  \/ PopFrame
  \/ ExecControl
  \/ ExecCall
  \/ ExecConst

BoundsNext ==
  \/ NewVM
  \/ \E c \in BoundsCalls :
       invokes < MaxBoundsInvokes /\ Invoke(c.fidx, c.args)
  \/ BoundsLoop

BoundsSpec == BoundsInit /\ [][BoundsNext]_vars

(***************************************************************************)
(* The specification of the package leb128 on its own: one call of Read on *)
(* a byte slice, or of ReadUint32 on a reader, for each encoding.          *)
(***************************************************************************)
\* the longest run of bytes with the continuation bit in an input
MaxLebRun == 11

\* k copies of the byte c
Run(c, k) == [i \in 1..k |-> c]

\* the encodings: a run of bytes with the continuation bit set, with no
\* terminating byte or with one
LebInputs ==
  {Run(c, k) \o t : c \in {128, 255}, k \in 0..MaxLebRun,
                    t \in {<< >>, <<0>>, <<7>>, <<127>>}}

\* the widths the callers pass, and one beyond 64
LebWidths == {1, 7, 32, 64, 65}

LebInit ==
  /\ \E b \in LebInputs, maxbit \in LebWidths, hasSign \in BOOLEAN :
       leb = [NoLeb EXCEPT !.via = "input", !.b = b, !.maxbit = maxbit,
                           !.hasSign = hasSign]
  /\ Module = NoModule
  /\ gasPolicy = "free"
  /\ gas = [Limit |-> 0, Used |-> 0]
  /\ stack = << >>
  /\ sp = 0
  /\ frames = << >>
  /\ blocks = << >>
  /\ blocksIndex = 0
  /\ breakDepth = -1
  /\ memory = [len |-> Zero64, data |-> << >>]
  /\ globals = << >>
  /\ pc = "new"
  /\ starting = FALSE
  /\ ret = Zero64
  /\ err = NoError
  /\ invokes = 0
  /\ invocation = [fidx |-> -1, idle |-> FALSE]
  /\ transfer = NoTransfer
  /\ decoder = NoDecoder

\* the error of leb128.Read on a slice
ErrLeb == "leb128 error"

\* leb128.Read(b, maxbit, hasSign) on the byte slice b
LebRead ==
  /\ leb.via = "input"
  /\ \E r \in {Read(leb.b, leb.maxbit, leb.hasSign)} :
       leb' = [leb EXCEPT !.via = "slice", !.n = r.n, !.val = r.val,
                          !.err = IF r.err THEN ErrLeb ELSE NoError]
  /\ UNCHANGED << Module, gasPolicy, gas, stack, sp, frames, blocks,
                  blocksIndex, breakDepth, memory, globals, pc, starting,
                  ret, err, invokes, invocation, transfer, decoder >>

\* leb128.ReadUint32(r) on a reader of the bytes b, for the values below
\* 2^31, which the val of a reader holds
LebReadUint32 ==
  /\ leb.via = "input"
  /\ leb.maxbit = 32
  /\ ~leb.hasSign
  /\ IsSmall(Uint32(Read(leb.b, 32, FALSE).val))
  /\ \E br \in {ReadUint32(NewByteReader(leb.b, Len(leb.b)))} :
       leb' = [leb EXCEPT !.via = "reader",
                          !.n = IF br.err = NoError THEN br.curPos ELSE 0,
                          !.val = IF br.err = NoError THEN W(br.val) ELSE Zero64,
                          !.err = br.err]
  /\ UNCHANGED << Module, gasPolicy, gas, stack, sp, frames, blocks,
                  blocksIndex, breakDepth, memory, globals, pc, starting,
                  ret, err, invokes, invocation, transfer, decoder >>

LebNext == LebRead \/ LebReadUint32

LebSpec == LebInit /\ [][LebNext]_vars

\* interpret runs on the caller's goroutine and never waits: an invocation
\* that has an iteration left takes it
LiveSpec == Init /\ [][Next]_vars /\ WF_vars(InterpretLoop)

(***************************************************************************)
(* What the properties below observe.                                      *)
(***************************************************************************)
\* the value in slot p - 1 of the value stack stk
top(stk, p) == IF p >= 1 /\ p <= Len(stk) THEN stk[p] ELSE Zero64

\* the gas left pays for the opcode at hand
GasSuffices ==
  gas.Used <= gas.Limit /\ gas.Limit - gas.Used >= GetCostForOp(gasPolicy, nextOp)

\* the next step of interpret executes an opcode of ops
AboutToExecute(ops) ==
  AtInstruction /\ ~skipped /\ nextOp \in ops /\ GasSuffices

\* the invocation has ended with the error e handed to the caller
ReturnsError(e) == pc \in {"idle", "failed"} /\ err = e /\ ret = Zero64

(***************************************************************************)
(* Gas.                                                                    *)
(***************************************************************************)
\* C1: from gas.Used <= gas.Limit, no step of NewVM, Invoke or BurnGas lowers
\* gas.Used, and gas.Used <= gas.Limit holds after the step.
C1_GasMonotoneAndBounded ==
  [][(gas.Used <= gas.Limit)
       => (gas'.Used >= gas.Used /\ gas'.Used <= gas'.Limit
           /\ gas'.Limit = gas.Limit)]_vars

\* gas was burnt by NewVM, by opcodes and by BurnGas up to the limit
C1_Witness ==
  /\ gasPolicy = "simple"
  /\ pc = "idle"
  /\ invokes >= 2
  /\ gas.Used > 0
  /\ gas.Used = gas.Limit
  /\ err = NoError

\* C2: when the cost of the next opcode to execute exceeds limit - used,
\* Invoke returns ErrOutOfGas, gas.Used keeps its value and the opcode has no
\* effect on the value stack, the globals and the linear memory.
C2_OutOfGasHasNoEffect ==
  [][(AtInstruction /\ ~skipped /\ gas.Used <= gas.Limit
        /\ gas.Limit - gas.Used < GetCostForOp(gasPolicy, nextOp))
       => (ReturnsError(ErrOutOfGas)' /\ gas'.Used = gas.Used
           /\ stack' = stack /\ sp' = sp
           /\ globals' = globals /\ memory' = memory)]_vars

\* an invocation ran out of gas with operands on the value stack
C2_Witness ==
  /\ pc = "idle"
  /\ err = ErrOutOfGas
  /\ gas.Used = gas.Limit
  /\ gas.Limit > 0
  /\ sp > 0
  /\ framesIndex > 0

\* C3: under a policy that charges at least 1 for every opcode and a finite
\* limit, every invocation eventually finishes, endless loops and unbounded
\* recursion included.
C3_InvokeTerminates ==
  (pc = "running" /\ gasPolicy = "simple") ~> (pc # "running")

\* the recursive function was stopped by the gas, several frames deep
C3_Witness ==
  /\ Module = ControlModule
  /\ gasPolicy = "simple"
  /\ pc = "idle"
  /\ err = ErrOutOfGas
  /\ framesIndex >= 3

\* C4: every violation raised while Invoke executes bytecode reaches the
\* caller as an error value with result 0; Invoke never ends in an uncaught
\* panic.
C4_NoUncaughtPanic ==
  /\ pc \notin {"panicked", "exited"}
  /\ (pc \in {"idle", "failed"} /\ err # NoError => ret = Zero64)

(***************************************************************************)
(* Linear memory accesses.                                                 *)
(***************************************************************************)
\* the address operand of the load or store at hand
addressOperand ==
  IF nextOp \in LoadOps THEN top(stack, sp) ELSE top(stack, sp - 1)

\* its offset immediate, the second LEB128 after the opcode
offsetImmediate == readLEB(readLEB(fetched, 32, FALSE), 32, FALSE).regs[1]

\* ea = the address operand as an unsigned 32-bit value + the offset
effectiveAddress == Add64(Uint32(addressOperand), offsetImmediate)

\* ea + access size > MemSize
AccessOutOfBounds ==
  LtU64(memory.len, Add64(effectiveAddress, W(MemAccessSize(nextOp))))

\* a is one of the bytes [ea, ea + access size)
Accessed(a) ==
  /\ LeU64(effectiveAddress, a)
  /\ LtU64(a, Add64(effectiveAddress, W(MemAccessSize(nextOp))))

\* a load or store executes next, with its operands on the stack
AccessStep ==
  /\ AboutToExecute(LoadOps \cup StoreOps)
  /\ sp >= (IF nextOp \in LoadOps THEN 1 ELSE 2)

\* C5: a load or store with ea + access size > MemSize traps with "out of
\* bounds memory access" and leaves the memory unchanged; any other touches
\* only the bytes [ea, ea + access size).
C5_AccessBounds ==
  [][AccessStep
       => IF AccessOutOfBounds
          THEN ReturnsError("out of bounds memory access")' /\ memory' = memory
          ELSE /\ pc' = "running"
               /\ memory'.len = memory.len
               /\ \A a \in DOMAIN memory.data \cup DOMAIN memory'.data :
                    MemByte(memory', a) # MemByte(memory, a) => Accessed(a)]_vars

(***************************************************************************)
(* Integer division.                                                       *)
(***************************************************************************)
DivRemOps32 == {Op.I32DivS, Op.I32DivU, Op.I32RemS, Op.I32RemU}

DivRemOps64 == {Op.I64DivS, Op.I64DivU, Op.I64RemS, Op.I64RemU}

\* a division or remainder executes next, with its operands on the stack
DivRemStep == AboutToExecute(DivRemOps32 \cup DivRemOps64) /\ sp >= 2

\* the operands as the opcode's type sees them
dividend ==
  IF nextOp \in DivRemOps32 THEN Uint32(top(stack, sp - 1))
  ELSE top(stack, sp - 1)

divisor ==
  IF nextOp \in DivRemOps32 THEN Uint32(top(stack, sp)) ELSE top(stack, sp)

IntMin == IF nextOp \in DivRemOps32 THEN MinInt32Word ELSE MinInt64Word

IntMax == IF nextOp \in DivRemOps32 THEN MaxInt32Word ELSE MaxInt64Word

MinusOne == IF nextOp \in DivRemOps32 THEN MaxUint32Word ELSE AllOnes64

\* div_s of INT_MIN by -1
SignedOverflow ==
  nextOp \in {Op.I32DivS, Op.I64DivS} /\ dividend = IntMin /\ divisor = MinusOne

\* C6: i32.div_s of INT32_MIN by -1 and i64.div_s of INT64_MIN by -1 trap
\* with "integer overflow".
C6_DivSOverflowTraps ==
  [][(DivRemStep /\ SignedOverflow) => ReturnsError("integer overflow")']_vars

\* C7: div_s, div_u, rem_s and rem_u trap with "integer divide by zero"
\* exactly when the divisor is 0, nothing but div_s(INT_MIN, -1) traps
\* otherwise, div_s(INT_MIN, INT_MAX) is -1 and rem_s(INT_MIN, -1) is 0.
C7_DivRemTraps ==
  [][DivRemStep
       => /\ ReturnsError("integer divide by zero")' <=> (divisor = Zero64)
          /\ (pc' # "running") => (divisor = Zero64 \/ SignedOverflow)
          /\ (nextOp \in {Op.I32DivS, Op.I64DivS} /\ dividend = IntMin
                /\ divisor = IntMax)
               => (pc' = "running" /\ top(stack', sp') = MinusOne)
          /\ (nextOp \in {Op.I32RemS, Op.I64RemS} /\ dividend = IntMin
                /\ divisor = MinusOne)
               => (pc' = "running" /\ top(stack', sp') = Zero64)]_vars

(***************************************************************************)
(* memory.grow and the size of the memory.                                 *)
(***************************************************************************)
\* min(declared max pages, 65536)
pageCap ==
  IF TheModule.HasMem /\ TheModule.Limits.Flag = 1
     /\ TheModule.Limits.Max < wasmPageSize
  THEN TheModule.Limits.Max ELSE wasmPageSize

\* p, the pages of the memory
pageCount == ShrBytes(memory.len, 2)

\* d, the delta operand as an unsigned 32-bit page count
delta == Uint32(top(stack, sp))

\* p + d <= min(declared max pages, 65536)
GrowthAllowed == LeU64(Add64(pageCount, delta), W(pageCap))

\* cost_for_malloc(d) of a growth that is allowed
growCharge == GetCostForMalloc(gasPolicy, ToInt(delta))

\* memory.grow executes next, with its operand on the stack
GrowStep ==
  AboutToExecute({Op.MemoryGrow}) /\ sp >= 1 /\ TheModule.HasMem

\* the gas left pays for the opcode and for the pages
GrowAffordable ==
  GrowthAllowed
    => gas.Limit - gas.Used >= GetCostForOp(gasPolicy, nextOp) + growCharge

\* C8: memory.grow by d on p pages succeeds iff p + d <= min(declared max,
\* 65536); then the memory has p + d pages, the old bytes, zero new pages and
\* p is pushed; otherwise the memory is unchanged and 0xFFFFFFFF is pushed.
C8_MemoryGrow ==
  [][(GrowStep /\ GrowAffordable)
       => /\ pc' = "running"
          /\ sp' = sp
          /\ IF GrowthAllowed
             THEN /\ memory'.len = ShlBytes(Add64(pageCount, delta), 2)
                  /\ memory'.data = memory.data
                  /\ top(stack', sp') = pageCount
             ELSE /\ memory' = memory
                  /\ top(stack', sp') = MaxUint32Word]_vars

\* C9: when cost_for_malloc(delta) exceeds the gas left, Invoke returns
\* ErrOutOfGas and MemSize() is what it was before the memory.grow.
C9_GrowChargedFirst ==
  [][(GrowStep /\ GrowthAllowed
        /\ gas.Limit - gas.Used < GetCostForOp(gasPolicy, nextOp) + growCharge)
       => (ReturnsError(ErrOutOfGas)' /\ memory'.len = memory.len)]_vars

\* C10: in every state of an instance MemSize() is a multiple of 65536 and
\* at most min(declared max pages, 65536) x 65536.
C10_MemSizeWithinLimits ==
  pc \in {"idle", "running"}
    => /\ memory.len[1] = 0 /\ memory.len[2] = 0
       /\ LeU64(memory.len, ShlBytes(W(pageCap), 2))

(***************************************************************************)
(* Invoke: the argument check, the result and the state it leaves.         *)
(***************************************************************************)
\* the number of functions of the unified index space
NumFuncs == Len(functionImports) + Len(TheModule.Funcs)

\* the uint64 index w denotes a function of the unified index space
InIndexSpace(w) == LtU64(w, W(NumFuncs))

\* the signature of the function at index f of the unified index space
Signature(f) ==
  IF f < Len(functionImports)
  THEN Sig(functionImports[f + 1].ParamTypes, functionImports[f + 1].ReturnTypes)
  ELSE Sig(TheModule.Funcs[f - Len(functionImports) + 1].ParamTypes,
           TheModule.Funcs[f - Len(functionImports) + 1].ReturnTypes)

\* the step returns the error e and leaves the instance as it was
Rejected(e) ==
  /\ ReturnsError(e)'
  /\ UNCHANGED << sp, frames, blocks, blocksIndex, globals, memory, gas >>

\* C11: Invoke with a number of arguments other than the parameter count of
\* the target returns ErrWrongNumberOfArgs, Invoke with an index beyond the
\* unified function index space returns ErrFuncNotFound; both leave sp, the
\* frames, the blocks, the globals, the memory and gas.Used unchanged.
C11_InvokeArgumentErrors ==
  [][\A c \in Calls(Module, gasPolicy) :
       Invoke(c.fidx, c.args) =>
         /\ (InIndexSpace(c.fidx)
               /\ Len(c.args) # Len(Signature(ToInt(c.fidx)).ParamTypes))
              => Rejected(ErrWrongNumberOfArgs)
         /\ ~InIndexSpace(c.fidx) => Rejected(ErrFuncNotFound)]_vars

\* the number of results in the signature of the invoked function
Results == Len(Signature(invocation.fidx).ReturnTypes)

\* the invocation in progress was made on an idle instance and its target is
\* a locally defined function
InvokedLocalFromIdle ==
  /\ pc = "running"
  /\ invocation.idle
  /\ invocation.fidx >= Len(functionImports)

\* C12: from an idle instance, when the initial frame of a successful Invoke
\* is popped the value stack holds one slot if the signature has a result and
\* none if it is void; Invoke returns that slot (or 0) and leaves sp = 0,
\* framesIndex = 0, blocksIndex = 0 and break depth = -1.
C12_InvokeLeavesIdle ==
  [][InvokedLocalFromIdle =>
       /\ (framesIndex = 1 /\ framesIndex' = 0) => sp' = Results
       /\ (framesIndex = 0) =>
            /\ sp = Results
            /\ ret' = (IF Results = 1 THEN top(stack, 1) ELSE Zero64)
            /\ err' = NoError
            /\ pc' = "idle"
            /\ sp' = 0 /\ framesIndex' = 0 /\ blocksIndex' = 0
            /\ breakDepth' = -1]_vars

\* a function called from a block of its caller returned from inside two
\* blocks, and the invocation, made on an idle instance, returned its value
C12_Witness ==
  /\ Module = BranchModule
  /\ pc = "idle"
  /\ err = NoError
  /\ invocation = [fidx |-> 13, idle |-> TRUE]
  /\ ret = W(2)
  /\ sp = 0 /\ framesIndex = 0 /\ blocksIndex = 0 /\ breakDepth = -1

\* the invocation of a locally defined function whose declared result type
\* is i32 or f32 is about to return
ReturnsI32OrF32 ==
  /\ pc = "running"
  /\ framesIndex = 0
  /\ invocation.fidx >= Len(functionImports)
  /\ Results # 0
  /\ Signature(invocation.fidx).ReturnTypes[1] \in {ValueTypeI32, ValueTypeF32}

\* C13: a successful Invoke of a locally defined function with result type
\* i32 or f32 returns a value whose upper 32 bits are zero; the function
\* (i32.const -1) yields 4294967295.
C13_ResultCastTo32Bits ==
  [][(ReturnsI32OrF32 /\ pc' = "idle" /\ err' = NoError) =>
       /\ ret' = Uint32(ret')
       /\ (Module = BranchModule /\ invocation.fidx = 1) => ret' = MaxUint32Word]_vars

(***************************************************************************)
(* Indirect calls.                                                         *)
(***************************************************************************)
\* the next step of interpret executes call_indirect with its operand on
\* the value stack, in a module that has a table
IndirectStep ==
  /\ AboutToExecute({Op.CallIndirect})
  /\ sp >= 1
  /\ Len(TheModule.Tables) > 0

\* the signature declared at the call site
callSiteSignature == TheModule.Types[ToInt(readLEB(fetched, 32, FALSE).regs[1]) + 1]

\* the popped element index, taken as an unsigned 32-bit value
elementIndex == Uint32(top(stack, sp))

\* the element index lies within the table
InTable == LtU64(elementIndex, W(Len(TheModule.Tables[1])))

\* the function index found in the table
tableFunction == TheModule.Tables[1][ToInt(elementIndex) + 1]

\* the state in which a direct call of fidx would find the instance: the
\* immediates read and the element index popped
beforeCall == pop(readLEB(readLEB(fetched, 32, FALSE), 1, FALSE))

\* the step does what call fidx does from beforeCall
CallsDirectly(fidx) ==
  /\ pc' = "running"
  /\ frames' = CallFunction(beforeCall, fidx).frames
  /\ sp' = CallFunction(beforeCall, fidx).sp
  /\ stack' = CallFunction(beforeCall, fidx).stack
  /\ UNCHANGED << blocksIndex, breakDepth, globals, memory >>

\* C14: call_indirect traps with "indirect call type mismatch" whenever the
\* parameter or result types of the function found in the table differ from
\* the signature declared at the call site, be that function local or a host
\* import; with equal signatures the call proceeds as a direct call.
C14_IndirectCallSignature ==
  [][(IndirectStep /\ InTable) =>
       IF Signature(tableFunction) # callSiteSignature
       THEN ReturnsError("indirect call type mismatch")'
       ELSE CallsDirectly(tableFunction)]_vars

\* C15: call_indirect traps with "out of bounds table access" for every
\* popped element index that, as an unsigned 32-bit value, is at least the
\* table length, and calls no function: no frame is pushed and no host
\* function has touched the value stack.
C15_IndirectCallTableBounds ==
  [][(IndirectStep /\ ~InTable) =>
       /\ ReturnsError("out of bounds table access")'
       /\ frames' = [frames EXCEPT ![Len(frames)].ip = @ + 3]
       /\ sp' = sp - 1
       /\ stack' = stack]_vars

(***************************************************************************)
(* Branches, return and if.                                                *)
(***************************************************************************)
BranchOps == {Op.Br, Op.BrIf, Op.BrTable}

\* br_table: the number of listed targets and the depths read (the default
\* first, then the listed depths from the last to the first)
tableCount == ToInt(readLEB(fetched, 32, FALSE).regs[1])

tableDepths == skipTargets(readLEB(fetched, 32, FALSE)).regs

\* the popped index as an unsigned 32-bit value, and the depth it indexes:
\* the listed depth at a position below n, the default depth otherwise
tableIndex == Uint32(top(stack, sp))

indexedDepth ==
  IF LtU64(tableIndex, W(tableCount))
  THEN ToInt(tableDepths[tableCount + 1 - ToInt(tableIndex)])
  ELSE ToInt(tableDepths[1])

\* the popped slot as br_table takes it, int(vm.pop()): all its 64 bits as
\* a signed integer, and the depth br_table selects with it: the listed
\* depth at a position 0 <= slot < n, the default depth for every other slot
slotIndex == IntOf(top(stack, sp))

slotDepth ==
  IF 0 <= slotIndex /\ slotIndex < tableCount
  THEN ToInt(tableDepths[tableCount + 1 - slotIndex])
  ELSE ToInt(tableDepths[1])

\* the depth of the branch at hand: the immediate of br and br_if, the depth
\* br_table has selected
branchDepth ==
  IF nextOp = Op.BrTable THEN slotDepth
  ELSE ToInt(readLEB(fetched, 32, FALSE).regs[1])

\* the next step of interpret executes a branch that is taken
BranchStep ==
  /\ AboutToExecute(BranchOps)
  /\ nextOp = Op.BrTable => tableCount <= MaxBrTableSize
  /\ nextOp # Op.Br => sp >= 1
  /\ nextOp = Op.BrIf => top(stack, sp) # Zero64

\* the number of blocks open in the current frame
openBlocks == blocksIndex - frames[Len(frames)].baseBlockIndex

\* the block a branch of depth d targets
enclosing(d) == blocks[blocksIndex - d]

\* the interpreter unwinds to the end of a block of the current frame
Unwinding ==
  /\ AtInstruction
  /\ breakDepth >= 0
  /\ breakDepth < openBlocks

\* the else at hand ends the skipped then-arm of the innermost if
ElseResumes ==
  /\ nextOp = Op.Else
  /\ breakDepth = 0
  /\ enclosing(0).blockType = typeIf
  /\ enclosing(0).executeElse

\* C16: a taken br, br_if or br_table of depth d whose target is a block or
\* an if starts unwinding with break depth d and pops nothing; while
\* unwinding, an opcode other than end and else changes neither the value
\* stack nor the globals, the memory or the gas, an else changes none of
\* them either, and every end pops one block and lowers the break depth by
\* one, so that the end of the target leaves the d + 1 blocks popped and the
\* interpreter operative (break depth -1).
C16_BranchToBlockUnwinds ==
  [][/\ (BranchStep /\ branchDepth < openBlocks
           /\ enclosing(branchDepth).blockType # typeLoop)
          => /\ pc' = "running"
             /\ breakDepth' = branchDepth
             /\ UNCHANGED << blocks, blocksIndex, globals, memory >>
     /\ (Unwinding /\ nextOp \notin {Op.End, Op.Else})
          => /\ pc' = "running"
             /\ blocksIndex' - breakDepth' = blocksIndex - breakDepth
             /\ UNCHANGED << stack, sp, globals, memory, gas >>
     /\ (Unwinding /\ nextOp = Op.Else /\ ~ElseResumes /\ GasSuffices)
          => /\ pc' = "running"
             /\ UNCHANGED << breakDepth, blocks, blocksIndex, stack, sp,
                             globals, memory >>
     /\ (Unwinding /\ nextOp = Op.End /\ GasSuffices)
          => /\ pc' = "running"
             /\ blocksIndex' = blocksIndex - 1
             /\ breakDepth' = breakDepth - 1
             /\ UNCHANGED << globals, memory >>]_vars

\* C17: a taken branch of depth d whose target is a loop sets the
\* instruction pointer to the header of that loop (the next opcode fetched
\* is the first of its body), pops the d blocks nested in the loop, keeps
\* the loop's own block and goes on operatively (break depth -1).
C17_BranchToLoopRewinds ==
  [][(BranchStep /\ branchDepth < openBlocks
        /\ enclosing(branchDepth).blockType = typeLoop)
       => /\ pc' = "running"
          /\ breakDepth' = -1
          /\ blocksIndex' = blocksIndex - branchDepth
          /\ blocks' = SubSeq(blocks, 1, blocksIndex - branchDepth)
          /\ frames' = [frames EXCEPT
                          ![Len(frames)].ip = enclosing(branchDepth).labelPointer]
          /\ instructions(frames'[Len(frames')])[frames'[Len(frames')].ip]
               = Op.Loop]_vars

\* the br_if 1 in the block nested in the loop was taken once: the counter
\* went from 2 to 1, the block was popped and the loop is entered again
C17_Witness ==
  /\ Module = BranchModule
  /\ pc = "running"
  /\ invocation = [fidx |-> 9, idle |-> TRUE]
  /\ framesIndex = 1
  /\ frames[1].ip = 1
  /\ blocksIndex = 1
  /\ blocks[1].blockType = typeLoop
  /\ breakDepth = -1
  /\ top(stack, 1) = W(1)

\* C18: a taken br, br_if or br_table whose depth is larger than the number
\* of blocks open in the current frame traps with "cannot break out of
\* current function"; no branch pops or changes a block below the frame's
\* baseBlockIndex.
C18_BranchStaysInFunction ==
  [][BranchStep =>
       /\ (branchDepth > openBlocks) =>
            /\ ReturnsError("cannot break out of current function")'
            /\ UNCHANGED << blocks, blocksIndex >>
            /\ framesIndex' = framesIndex
       /\ blocksIndex' >= frames[Len(frames)].baseBlockIndex
       /\ SubSeq(blocks', 1, frames[Len(frames)].baseBlockIndex)
            = SubSeq(blocks, 1, frames[Len(frames)].baseBlockIndex)]_vars

\* the br_table of a callee trapped with a depth beyond its own block; the
\* block of the caller and the frames are still there
C18_Witness ==
  /\ Module = BranchModule
  /\ pc = "idle"
  /\ err = "cannot break out of current function"
  /\ invocation = [fidx |-> 11, idle |-> TRUE]
  /\ framesIndex = 2
  /\ blocksIndex = 2
  /\ frames[2].baseBlockIndex = 1

\* the number of results of the function of the current frame
frameResults == Len(returnTypes(VMState))

\* the break in progress leaves the function: its depth is the number of
\* blocks open in the current frame
Returning ==
  /\ pc = "running"
  /\ framesIndex > 0
  /\ breakDepth >= 0
  /\ breakDepth = openBlocks

\* C19: return starts a break whose depth is the number of blocks open in
\* the frame and leaves the value stack as it is; in an invocation made on an
\* idle instance, until the frame is popped an opcode other than end and
\* else changes neither the value stack nor the globals, the memory or the
\* gas, an else changes none of the first three, and an end pops one block
\* and keeps the value on top of the stack; the frame is then popped with
\* sp = basePointer plus one slot holding that value (sp = basePointer for a
\* void function), blocksIndex = baseBlockIndex and break depth -1.
C19_ReturnLeavesFunction ==
  [][/\ AboutToExecute({Op.Return})
          => /\ pc' = "running"
             /\ breakDepth' = openBlocks
             /\ framesIndex' = framesIndex
             /\ UNCHANGED << stack, sp, blocks, blocksIndex, globals, memory >>
     /\ (invocation.idle /\ Returning /\ AtInstruction
           /\ nextOp \notin {Op.End, Op.Else})
          => /\ Returning'
             /\ framesIndex' = framesIndex
             /\ UNCHANGED << stack, sp, globals, memory, gas >>
     /\ (invocation.idle /\ Returning /\ AtInstruction /\ nextOp = Op.Else
           /\ GasSuffices)
          => /\ Returning'
             /\ framesIndex' = framesIndex
             /\ UNCHANGED << breakDepth, blocks, blocksIndex, stack, sp,
                             globals, memory >>
     /\ (invocation.idle /\ Returning /\ AtInstruction /\ nextOp = Op.End
           /\ GasSuffices)
          => /\ pc' = "running"
             /\ framesIndex' = framesIndex
             /\ blocksIndex' = blocksIndex - 1
             /\ breakDepth' = breakDepth - 1
             /\ frameResults = 1 => top(stack', sp') = top(stack, sp)
             /\ UNCHANGED << globals, memory >>
     /\ (invocation.idle /\ Returning /\ ~AtInstruction)
          => /\ pc' = "running"
             /\ framesIndex' = framesIndex - 1
             /\ sp' = frames[Len(frames)].basePointer + frameResults
             /\ frameResults = 1 => top(stack', sp') = top(stack, sp)
             /\ blocksIndex' = frames[Len(frames)].baseBlockIndex
             /\ breakDepth' = -1
             /\ UNCHANGED << globals, memory, gas >>]_vars

\* the innermost open block is an if whose arms are at hand: the interpreter
\* executes one of them or skips it at break depth 0
InIfArm ==
  /\ AtInstruction
  /\ GasSuffices
  /\ openBlocks >= 1
  /\ enclosing(0).blockType = typeIf
  /\ breakDepth \in {-1, 0}

\* C20: an if executed operatively pops the condition and pushes an if
\* block; the interpreter stays operative (the then-arm executes) exactly
\* when the condition is non-zero and otherwise skips at break depth 0 with
\* executeElse recorded; while an arm is skipped, block, loop and if push a
\* block and raise the break depth, their ends pop it and lower the depth,
\* and no other opcode changes the value stack, the globals or the memory;
\* the else of the if ends an executed then-arm by skipping at depth 0 and
\* ends a skipped then-arm by resuming; the end of the if pops its block and
\* leaves the interpreter operative.
C20_IfExecutesOneArm ==
  [][/\ (AboutToExecute({Op.If}) /\ sp >= 1)
          => /\ pc' = "running"
             /\ sp' = sp - 1
             /\ blocksIndex' = blocksIndex + 1
             /\ blocks'[blocksIndex'].blockType = typeIf
             /\ blocks'[blocksIndex'].executeElse = (top(stack, sp) = Zero64)
             /\ (top(stack, sp) # Zero64) <=> (breakDepth' = -1)
             /\ (top(stack, sp) = Zero64) <=> (breakDepth' = 0)
             /\ UNCHANGED << globals, memory >>
     /\ (AtInstruction /\ skipped)
          => /\ pc' = "running"
             /\ UNCHANGED << stack, sp, globals, memory, gas >>
             /\ IF nextOp \in {Op.Block, Op.Loop, Op.If}
                THEN /\ blocksIndex' = blocksIndex + 1
                     /\ breakDepth' = breakDepth + 1
                     /\ ~blocks'[blocksIndex'].executeElse
                ELSE UNCHANGED << blocks, blocksIndex, breakDepth >>
     /\ (AtInstruction /\ GasSuffices /\ breakDepth > 0
           /\ nextOp \in {Op.End, Op.Else} /\ openBlocks >= 1
           /\ ~enclosing(0).executeElse)
          => /\ pc' = "running"
             /\ blocksIndex' = blocksIndex - (IF nextOp = Op.End THEN 1 ELSE 0)
             /\ breakDepth' = breakDepth - (IF nextOp = Op.End THEN 1 ELSE 0)
             /\ UNCHANGED << globals, memory >>
     /\ (InIfArm /\ nextOp = Op.Else)
          => /\ pc' = "running"
             /\ breakDepth' = (IF enclosing(0).executeElse THEN -1 ELSE 0)
             /\ UNCHANGED << blocks, blocksIndex, stack, sp, globals, memory >>
     /\ (InIfArm /\ nextOp = Op.End)
          => /\ pc' = "running"
             /\ blocksIndex' = blocksIndex - 1
             /\ blocks' = SubSeq(blocks, 1, blocksIndex - 1)
             /\ breakDepth' = -1
             /\ UNCHANGED << globals, memory >>]_vars

(***************************************************************************)
(* br_table.                                                               *)
(***************************************************************************)
\* the step at hand leads to the result r of the interpreter
StepIs(r) ==
  /\ stack' = r.stack
  /\ sp' = r.sp
  /\ frames' = r.frames
  /\ blocks' = r.blocks
  /\ blocksIndex' = r.blocksIndex
  /\ breakDepth' = r.breakDepth
  /\ gas' = r.gas
  /\ IF Halted(r)
     THEN pc' \in {"idle", "failed"} /\ err' = r.panic /\ ret' = Zero64
     ELSE pc' = "running"

\* br_table: the state after the opcode was charged, the index popped and
\* the count and all the targetCount + 1 depths read
tableRead == pop(skipTargets(readLEB(charged, 32, FALSE)))

\* C21: br_table with n listed targets and the popped index i, taken as an
\* unsigned 32-bit value, does what a branch to the i-th listed depth does
\* when i < n and what a branch to the default depth does otherwise, in both
\* cases from the position after all the n + 1 depth immediates; with more
\* than MaxBrTableSize listed targets it traps with "too many br_table
\* targets".
C21_BrTableSelectsTarget ==
  [][(AboutToExecute({Op.BrTable}) /\ sp >= 1) =>
       IF tableCount > MaxBrTableSize
       THEN ReturnsError("too many br_table targets")'
       ELSE /\ StepIs(blockJump(tableRead, indexedDepth))
            /\ (pc' = "running" /\ breakDepth' # -1)
                 => /\ frames' = tableRead.frames
                    /\ frames'[Len(frames')].ip
                         = frames[Len(frames)].ip + 2 + (tableCount + 1)]_vars

\* br_table on the whole 64-bit slot: it branches to the listed depth at the
\* position of the slot when the slot, as a signed 64-bit integer, is in
\* 0 .. n - 1 and to the default depth otherwise, from the position after
\* the n + 1 depth immediates; an oversize table traps
C21_BrTableSelectsBySlot ==
  [][(AboutToExecute({Op.BrTable}) /\ sp >= 1) =>
       IF tableCount > MaxBrTableSize
       THEN ReturnsError("too many br_table targets")'
       ELSE /\ StepIs(blockJump(tableRead, slotDepth))
            /\ (pc' = "running" /\ breakDepth' # -1)
                 => /\ frames' = tableRead.frames
                    /\ frames'[Len(frames')].ip
                         = frames[Len(frames)].ip + 2 + (tableCount + 1)]_vars

\* br_table on a slot whose upper 32 bits are zero selects as the claim says
C21_BrTableSelectsTargetOfCleanSlot ==
  [][(AboutToExecute({Op.BrTable}) /\ sp >= 1
        /\ tableCount <= MaxBrTableSize
        /\ \A i \in 5..8 : top(stack, sp)[i] = 0)
       => StepIs(blockJump(tableRead, indexedDepth))]_vars

\* br_table of function 10 (one listed target 2, default 1) has popped the
\* slot 2^32, whose low 32 bits are the index 0, and the invocation goes on
\* with the default depth 1 as the break depth instead of the trap of the
\* listed depth 2, which leaves the function
C21_DirtyIndex ==
  /\ Module = BranchModule
  /\ invocation = [fidx |-> 10, idle |-> TRUE]
  /\ pc = "running"
  /\ framesIndex = 1
  /\ frames[1].ip = 7
  /\ breakDepth = 1
  /\ sp = 1
  /\ stack[1] = ShlBytes(One64, 4)

\* the index 1 of a table of two listed targets was popped and its depth 0,
\* which only this entry of the table holds, is the break depth
C21_Witness ==
  /\ Module = BranchModule
  /\ pc = "running"
  /\ invocation = [fidx |-> 8, idle |-> TRUE]
  /\ framesIndex = 1
  /\ frames[1].ip = 12
  /\ blocksIndex = 2
  /\ breakDepth = 0
  /\ sp = 1

(***************************************************************************)
(* C22, C23: MemRead and MemWrite.                                         *)
(***************************************************************************)
\* the step is a call of MemWrite, of MemRead
Wrote == invokes' = invokes + 1 /\ transfer'.op = "MemWrite"

Read_ == invokes' = invokes + 1 /\ transfer'.op = "MemRead"

\* the instance after the step
After == [VMState EXCEPT !.memory = memory']

\* a buffer as long as b that differs from b in every byte
Other(b) == [i \in 1..Len(b) |-> 255 - b[i]]

\* the addresses of the non-zero bytes before or after the step
Touched == {ToInt(a) : a \in DOMAIN memory.data \cup DOMAIN memory'.data}

\* C22: a MemWrite of B at an offset O with 0 <= O and O + len(B) <=
\* MemSize() returns len(B) and no error, a MemRead of len(B) bytes at O
\* that follows it fills the buffer with B and returns no error, and the
\* bytes outside [O, O + len(B)) are the ones before the write
C22_WriteReadRoundTrip ==
  [][(Wrote /\ 0 <= transfer'.offset
            /\ transfer'.offset + Len(transfer'.b) <= ToInt(memory.len)) =>
       /\ pc' = "idle"
       /\ transfer'.n = Len(transfer'.b) /\ transfer'.err = NoError
       /\ memRead(After, Other(transfer'.b), transfer'.offset)
            = Transferred(memory', transfer'.b, Len(transfer'.b), NoError)
       /\ \A a \in Touched :
            (a < transfer'.offset \/ a >= transfer'.offset + Len(transfer'.b))
              => MemByte(memory', W(a)) = MemByte(memory, W(a))
       /\ memory'.len = memory.len]_vars

\* three bytes were written up to the last byte of a one-page memory that
\* held other bytes elsewhere
C22_Witness ==
  /\ transfer.op = "MemWrite" /\ transfer.b = <<1, 0, 3>>
  /\ transfer.offset = 65533 /\ transfer.n = 3 /\ transfer.err = NoError
  /\ MemByte(memory, W(65535)) = 3 /\ MemByte(memory, W(65534)) = 0
  /\ MemByte(memory, W(5)) = 253 /\ invokes = 2

\* C23: MemRead and MemWrite leave MemSize() as it is, and a call whose
\* range runs past the end of the memory transfers the MemSize() - offset
\* bytes that fit, returns that count and returns io.ErrShortBuffer (read)
\* or io.ErrShortWrite (write), whatever the offset and the buffer length
C23_ShortTransfer ==
  [][(Wrote \/ Read_) =>
       /\ memory'.len = memory.len
       /\ transfer'.offset + Len(transfer'.b) > ToInt(memory.len) =>
            /\ pc' = "idle"
            /\ transfer'.n = ToInt(memory.len) - transfer'.offset
            /\ transfer'.err = IF Wrote THEN "short write" ELSE "short buffer"
            /\ \A i \in 1..transfer'.n :
                 MemByte(memory', W(transfer'.offset + i - 1))
                   = IF Wrote THEN transfer'.b[i] ELSE transfer'.buf[i]]_vars

(***************************************************************************)
(* C24, C25: ReadModule.                                                   *)
(***************************************************************************)
\* ReadModule has returned or has left by a panic or an exit
Returned == decoder.status \in {"done", "error", "panicked", "exited"}

\* the ids of the sections read that are not custom sections
NonCustom == SelectSeq(decoder.sections, LAMBDA id : id # 0)

OrderError ==
  "wasm: sections must occur at most once and in the prescribed order"

\* C24: ReadModule returns an error for every input in which two sections
\* that are not custom sections are not in strictly increasing order of
\* their ids, however many custom sections lie between them, and no custom
\* section is rejected for its position
C24_SectionOrderEnforced ==
  /\ decoder.status = "done" =>
       \A i, j \in 1..Len(NonCustom) : i < j => NonCustom[i] < NonCustom[j]
  /\ (decoder.status = "error" /\ decoder.err = OrderError) =>
       decoder.br.val # 0

\* the bytes of b from pos on are whole sections: an id, a size and as
\* many bytes as the size says, up to the end of b
RECURSIVE Framed(_, _)
Framed(b, pos) ==
  IF pos = Len(b) THEN TRUE
  ELSE IF pos + 2 > Len(b) THEN FALSE
  ELSE LET size == Read(SubSeq(b, pos + 2, Len(b)), 32, FALSE)
       IN /\ ~size.err
          /\ b[pos + 1 + size.n] < 128
          /\ pos + 1 + size.n + ToInt(size.val) <= Len(b)
          /\ Framed(b, pos + 1 + size.n + ToInt(size.val))

\* the input ends inside a section that follows the magic number and the
\* version
EndsInsideSection ==
  /\ Len(decoder.br.b) >= 8
  /\ SubSeq(decoder.br.b, 1, 8) = Magic \o Version
  /\ ~Framed(decoder.br.b, 8)

\* C25: when the input ends inside a section (after the id byte, inside
\* the size, before the payload is complete) ReadModule returns an error
\* and no module; a module is returned only for an input that ends where a
\* section ends
C25_TruncatedInputRejected ==
  (Returned /\ EndsInsideSection) =>
     (decoder.status = "error" /\ Module = NoModule)

(***************************************************************************)
(* C26: NewVM, the initial memory and its gas.                             *)
(***************************************************************************)
\* the step is NewVM on a module with a memory section
NewVMStep == pc = "new" /\ pc' # "new" /\ Module.HasMem

minPages == Module.Limits.Min

mallocCost == GetCostForMalloc(gasPolicy, minPages)

\* the data segments fit in the declared minimum
DataFit == Len(Module.Data) <= minPages * wasmPageSize

\* NewVM returns e and no instance, and has charged nothing
NewVMFails(e) == pc' = "failed" /\ err' = e /\ gas' = gas

\* NewVM returns an instance with the declared minimum of memory and has
\* charged the cost of allocating it
NewVMAllocates ==
  pc' # "failed" =>
    /\ ToInt(memory'.len) = minPages * wasmPageSize
    /\ gas'.Used = gas.Used + mallocCost

NewVMCall == pc = "new" /\ pc' # "new"

\* NewVM goes on, to the globals and the start function, with a memory of n
\* pages and with cost added to gas.Used
NewVMGoesOn(n, cost) ==
  /\ pc' = (IF Module.Start >= 0 THEN "running" ELSE "idle")
  /\ ToInt(memory'.len) = n * wasmPageSize
  /\ gas' = [gas EXCEPT !.Used = @ + cost]

C26_SpentGasBeforeOversizeData ==
  /\ Module = DataOverModule /\ pc = "failed" /\ err = ErrOutOfGas
  /\ gas = [Limit |-> 10, Used |-> 20]

\* NewVM has returned ErrOutOfBoundMemoryAccess under a limit below the
\* malloc cost of the one declared page
C26_OversizeDataBeforeMalloc ==
  /\ Module = DataOverModule /\ pc = "failed"
  /\ err = "out of bounds memory access"
  /\ gasPolicy = "simple" /\ gas = [Limit |-> 1000, Used |-> 0]

\* NewVM has built an instance of a module without a memory section under
\* the simple policy: one page of memory, nothing charged
C26_MemorylessInstance ==
  /\ ~Module.HasMem /\ pc = "idle" /\ invokes = 0
  /\ gasPolicy = "simple" /\ gas.Used = 0 /\ gas.Limit > 0
  /\ ToInt(memory.len) = wasmPageSize

(***************************************************************************)
(* C27: the value stack across a call.                                     *)
(***************************************************************************)
\* the function index of the call at hand: the immediate of call, the table
\* entry of call_indirect
calleeIndex ==
  IF nextOp = Op.Call THEN ToInt(readLEB(fetched, 32, FALSE).regs[1])
  ELSE tableFunction

\* sp just before the call: call_indirect has popped its element index
spAtCall == IF nextOp = Op.CallIndirect THEN sp - 1 ELSE sp

\* the slots below slot n are the same after the step
SlotsBelowKept(n) == \A p \in 1..n : top(stack', p) = top(stack, p)

\* the next step executes a call or a call_indirect that finds its callee
CallStep ==
  /\ AboutToExecute({Op.Call, Op.CallIndirect})
  /\ nextOp = Op.CallIndirect => (IndirectStep /\ InTable)
  /\ calleeIndex >= 0
  /\ calleeIndex < Len(functionImports) + Len(TheModule.Funcs)
  /\ spAtCall >= Len(Signature(calleeIndex).ParamTypes)
  /\ pc' = "running"

\* the function of the frame on top
frameFunction == TheModule.Funcs[frames[Len(frames)].fn + 1]

\* C27: a call or call_indirect of a local function opens a frame whose
\* base is sp just before the call minus the parameter count, and when a
\* frame is popped sp is that base plus the number of results of the
\* function (0 or 1); a call of a host import leaves sp at sp just before
\* the call minus the parameter count plus the number of results of the
\* import; in all three steps, and in every step taken inside the callee,
\* the slots below the arguments stay as they are
C27_CallStackEffect ==
  [][/\ (CallStep /\ calleeIndex >= Len(functionImports)) =>
          /\ framesIndex' = framesIndex + 1
          /\ frames'[Len(frames')].fn = calleeIndex - Len(functionImports)
          /\ frames'[Len(frames')].basePointer
               = spAtCall - Len(Signature(calleeIndex).ParamTypes)
          /\ SlotsBelowKept(frames'[Len(frames')].basePointer)
     /\ (CallStep /\ calleeIndex < Len(functionImports)) =>
          /\ framesIndex' = framesIndex
          /\ sp' = spAtCall - Len(Signature(calleeIndex).ParamTypes)
                     + Len(Signature(calleeIndex).ReturnTypes)
          /\ SlotsBelowKept(spAtCall - Len(Signature(calleeIndex).ParamTypes))
     /\ (pc = "running" /\ pc' = "running" /\ framesIndex >= 1
           /\ framesIndex' = framesIndex - 1) =>
          /\ sp' = frames[Len(frames)].basePointer
                     + Len(frameFunction.ReturnTypes)
          /\ SlotsBelowKept(frames[Len(frames)].basePointer)
     /\ (pc = "running" /\ pc' = "running" /\ framesIndex >= 1
           /\ framesIndex' >= framesIndex) =>
          /\ \A k \in 1..framesIndex :
               /\ frames'[k].basePointer = frames[k].basePointer
               /\ frames'[k].fn = frames[k].fn
          /\ SlotsBelowKept(frames[Len(frames)].basePointer)]_vars

(***************************************************************************)
(* C28: NaN results of the floating-point arithmetic.                      *)
(***************************************************************************)
\* the next step executes one of ops on enough operands and pushes a result
Applies(ops, arity) ==
  AboutToExecute(ops) /\ sp >= arity /\ pc' = "running" /\ sp' = sp - arity + 1

\* the value the step has pushed
result == top(stack', sp')

\* the bits w are a NaN of the width of the f32 or f64 opcode at hand
NaNBits(w) ==
  IF nextOp \in F32Ops THEN IsNaN(Float32frombits(Uint32(w)))
  ELSE IsNaN(Float64frombits(w))

\* the canonical NaN of that width
canonicalNaN ==
  IF nextOp \in F32Ops THEN f32CanonicalNaNBits ELSE f64CanonicalNaNBits

\* the sign bit of that width
signMask == IF nextOp \in F32Ops THEN f32SignMask ELSE f64SignMask

\* the step computes a value from the operands
Computing == FloatBinops \cup FloatUnops

\* the step sets a sign bit
Signing ==
  {Op.F32Abs, Op.F32Neg, Op.F32Copysign, Op.F64Abs, Op.F64Neg, Op.F64Copysign}

Arity(op) ==
  IF op \in FloatBinops \cup {Op.F32Copysign, Op.F64Copysign} THEN 2 ELSE 1

\* the first operand of the opcode at hand, as wide as the opcode
firstOperand ==
  IF nextOp \in F32Ops THEN Uint32(top(stack, sp - Arity(nextOp) + 1))
  ELSE top(stack, sp - Arity(nextOp) + 1)

\* the sign bit the opcode at hand gives its result
signGiven ==
  IF nextOp \in {Op.F32Abs, Op.F64Abs} THEN Zero64
  ELSE IF nextOp \in {Op.F32Neg, Op.F64Neg}
  THEN Xor64(And64(firstOperand, signMask), signMask)
  ELSE And64(top(stack, sp), signMask)

\* the claim as stated: a NaN pushed by any of the fourteen operators of
\* either width is the canonical one
C28_NaNResultsCanonical ==
  [][\A op \in Computing \cup Signing :
       (Applies({op}, Arity(op)) /\ NaNBits(result))
         => result = canonicalNaN]_vars

\* C28: every f32 or f64 value pushed as the result of add, sub, mul, div,
\* min, max, ceil, floor, trunc, nearest or sqrt that is a NaN has the
\* canonical bit pattern 0x7fc00000 (f32) or 0x7ff8000000000000 (f64);
\* copysign, abs and neg push the bits of their first operand with only the
\* sign bit set anew, so that a NaN operand keeps its payload
C28_ComputedNaNsCanonical ==
  [][/\ \A op \in Computing :
          (Applies({op}, Arity(op)) /\ NaNBits(result))
            => result = canonicalNaN
     /\ \A op \in Signing :
          Applies({op}, Arity(op))
            => result = Or64(AndNot64(firstOperand, signMask), signGiven)]_vars

\* f32.add has pushed the canonical NaN for +Inf + -Inf
C28_Witness ==
  /\ Module = FloatModule
  /\ pc = "running"
  /\ invocation.fidx = Op.F32Add - Op.F32Abs
  /\ sp = 3
  /\ top(stack, 1) = Float32bits(Inf(FALSE))
  /\ top(stack, 2) = Float32bits(Inf(TRUE))
  /\ top(stack, 3) = f32CanonicalNaNBits

(***************************************************************************)
(* C29: the truncations of floats to integers.                             *)
(***************************************************************************)
\* the sub-opcode that follows the 0xFC at hand
subopAtHand ==
  IF frames[Len(frames)].ip + 3 \in 1..Len(instructions(frames[Len(frames)]))
  THEN instructions(frames[Len(frames)])[frames[Len(frames)].ip + 3]
  ELSE -1

\* the conversion at hand is from an f32
FromF32 ==
  \/ nextOp \in {Op.I32TruncSF32, Op.I32TruncUF32, Op.I64TruncSF32, Op.I64TruncUF32}
  \/ nextOp = Op.ITruncSatF /\ subopAtHand \in {0, 1, 4, 5}

\* the integer type the conversion at hand is to: its width and whether it
\* is signed
To64 ==
  \/ nextOp \in Op.I64TruncSF32..Op.I64TruncUF64
  \/ nextOp = Op.ITruncSatF /\ subopAtHand \in 4..7

ToSigned ==
  \/ nextOp \in {Op.I32TruncSF32, Op.I32TruncSF64, Op.I64TruncSF32, Op.I64TruncSF64}
  \/ nextOp = Op.ITruncSatF /\ subopAtHand \in {0, 2, 4, 6}

\* the float on top of the stack
operand ==
  IF FromF32 THEN Float32frombits(Uint32(top(stack, sp)))
  ELSE Float64frombits(top(stack, sp))

\* the operand without its fraction is a value of the integer type
InRange ==
  LET bits == IF To64 THEN 64 ELSE 32
  IN IF ToSigned
     THEN /\ ~fless(mathTrunc(operand), [PowerOfTwo(bits - 1) EXCEPT !.neg = TRUE])
          /\ fless(mathTrunc(operand), PowerOfTwo(bits - 1))
     ELSE /\ ~fless(mathTrunc(operand), FZero(FALSE))
          /\ fless(mathTrunc(operand), PowerOfTwo(bits))

\* the least and the largest value of the integer type
leastInt ==
  IF ~ToSigned THEN Zero64 ELSE IF To64 THEN MinInt64Word ELSE MinInt32Word

largestInt ==
  IF To64 THEN (IF ToSigned THEN MaxInt64Word ELSE AllOnes64)
  ELSE IF ToSigned THEN MaxInt32Word ELSE MaxUint32Word

\* the integer the step has pushed, as wide as the integer type
pushedInt == IF To64 THEN top(stack', sp') ELSE Uint32(top(stack', sp'))

\* C29: iN.trunc_{s,u}_fM applied to any NaN bit pattern traps with "invalid
\* conversion to integer" and applied to a value outside the destination
\* range traps with "integer overflow"; the eight trunc_sat sub-opcodes never
\* trap, push 0 for NaN and the destination type's minimum or maximum for
\* out-of-range inputs.
C29_TruncTrapsAndSaturates ==
  [][/\ (AboutToExecute(TruncOps) /\ sp >= 1) =>
          /\ IsNaN(operand) => ReturnsError("invalid conversion to integer")'
          /\ (~IsNaN(operand) /\ ~InRange) => ReturnsError("integer overflow")'
     /\ (AboutToExecute({Op.ITruncSatF}) /\ subopAtHand \in 0..7 /\ sp >= 1) =>
          /\ pc' = "running"
          /\ sp' = sp
          /\ IsNaN(operand) => pushedInt = Zero64
          /\ (~IsNaN(operand) /\ ~InRange) =>
               pushedInt = IF operand.neg THEN leastInt ELSE largestInt]_vars

\* i32.trunc_s_f32 of 2^31 has trapped with "integer overflow"
C29_Witness ==
  /\ Module = FloatModule
  /\ invocation.fidx = 28
  /\ top(stack, 1) = Float32bits(PowerOfTwo(31))
  /\ ReturnsError("integer overflow")

(***************************************************************************)
(* C30: skipped instructions.                                              *)
(***************************************************************************)
\* the state after the opcode at hand was fetched and its immediates were
\* read the way the cases of interpret read them
immediatesRead ==
  IF nextOp \in {Op.Block, Op.Loop} THEN readLEB(fetched, 32, FALSE)
  ELSE IF nextOp \in {Op.If, Op.I32Const} THEN readLEB(fetched, 32, TRUE)
  ELSE IF nextOp \in {Op.Br, Op.BrIf, Op.Call} \cup (Op.GetLocal..Op.SetGlobal)
  THEN readLEB(fetched, 32, FALSE)
  ELSE IF nextOp = Op.BrTable THEN skipTargets(readLEB(fetched, 32, FALSE))
  ELSE IF nextOp = Op.CallIndirect
  THEN readLEB(readLEB(fetched, 32, FALSE), 1, FALSE)
  ELSE IF nextOp \in LoadOps \cup StoreOps
  THEN readLEB(readLEB(fetched, 32, FALSE), 32, FALSE)
  ELSE IF nextOp \in {Op.MemorySize, Op.MemoryGrow, Op.ITruncSatF}
  THEN readLEB(fetched, 1, FALSE)
  ELSE IF nextOp = Op.I64Const THEN readLEB(fetched, 64, TRUE)
  ELSE IF nextOp = Op.F32Const THEN readUint32(fetched)
  ELSE IF nextOp = Op.F64Const THEN readUint64(fetched)
  ELSE fetched

\* the next step skips the opcode at hand
SkipStep == AtInstruction /\ skipped /\ pc' = "running"

\* C30: for every opcode the interpreter executes, skipping it in unwinding
\* mode advances the instruction pointer by exactly the same number of bytes
\* as executing it would (the opcode plus all its immediates), including
\* br_table, call_indirect, the memory opcodes and the 0xFC trunc_sat prefix
\* with its sub-opcode; a skipped immediate byte is never decoded as an
\* opcode.
C30_SkipAdvancesAsExecution ==
  [][SkipStep =>
       frames'[Len(frames')].ip
         = immediatesRead.frames[Len(immediatesRead.frames)].ip]_vars

(***************************************************************************)
(* C31: what a skipped instruction changes.                                *)
(***************************************************************************)
\* the frames but for the instruction pointer of the current one
framesButIp(fs) == [fs EXCEPT ![Len(fs)].ip = 0]

\* the block skipInstructions pushes for the block, loop or if at hand
placeholder ==
  NewBlock(readLEB(fetched, 32, TRUE).frames[Len(frames)].ip,
           getBlockType(nextOp),
           ValueTypeOf(readLEB(fetched, 32, TRUE).regs[1]), sp)

\* C31: while break depth >= 0, a skipped opcode (every opcode other than
\* end and else) that does not trap leaves sp, the stack contents, the
\* globals, the linear memory and gas.Used unchanged and enters no function,
\* imported or local; it changes only the instruction pointer and, for
\* block, loop and if, pushes one placeholder block and increments break
\* depth by 1.
C31_SkipHasNoSideEffects ==
  [][(SkipStep /\ breakDepth >= 0) =>
       /\ UNCHANGED << sp, stack, globals, memory, gas, ret >>
       /\ framesButIp(frames') = framesButIp(frames)
       /\ IF nextOp \in {Op.Block, Op.Loop, Op.If}
          THEN /\ blocksIndex' = blocksIndex + 1
               /\ SubSeq(blocks', 1, blocksIndex')
                    = Append(SubSeq(blocks, 1, blocksIndex), placeholder)
               /\ breakDepth' = breakDepth + 1
          ELSE UNCHANGED << blocks, blocksIndex, breakDepth >>]_vars

\* a block was skipped while unwinding under the simple policy, after the
\* executed opcodes were charged: its placeholder is on top of the blocks
\* and the break depth counts it
C31_Witness ==
  /\ pc = "running"
  /\ gasPolicy = "simple"
  /\ gas.Used >= 1
  /\ breakDepth >= 1
  /\ blocksIndex >= 2
  /\ blocks[blocksIndex].blockType = typeBlock
  /\ blocks[blocksIndex].returnType = ValueTypeOf(WS(-64))
  /\ blocks[blocksIndex].basePointer = sp

(***************************************************************************)
(* C32..C34: the value stack at the end of a block and at a loop header.   *)
(***************************************************************************)
\* the block the end at hand closes
closing == blocks[blocksIndex]

\* the block type byte of the bytecode a block was pushed for (the byte is
\* read signed for an if and unsigned for a block or a loop)
declaredType(b) == b.returnType % 128

\* sp when the construct was entered, for an if after its condition was
\* popped
entrySp(b) == IF b.blockType = typeIf THEN b.basePointer - 1 ELSE b.basePointer

\* the next step executes the end of a construct of the current frame that
\* was entered operatively, reached by falling through or as the target of
\* a branch
EndStep ==
  /\ AboutToExecute({Op.End})
  /\ openBlocks >= 1
  /\ breakDepth \in {-1, 0}

\* C32: when the end of a block, loop or if with a declared result type is
\* reached with at least one value above the sp of its entry, by falling
\* through or by a branch that targets it, the end does not trap, sp becomes
\* the entry sp plus 1 and the top slot is the former top value cast to the
\* declared type.
C32_EndKeepsResult ==
  [][(EndStep /\ declaredType(closing) # BlockTypeEmpty
        /\ sp >= entrySp(closing) + 1)
       => /\ pc' = "running"
          /\ sp' = entrySp(closing) + 1
          /\ top(stack', sp')
               = castReturnValue(top(stack, sp), declaredType(closing))]_vars

\* the same for the ends of blocks and loops only
C32_BlockEndKeepsResult ==
  [][(EndStep /\ declaredType(closing) # BlockTypeEmpty
        /\ closing.blockType # typeIf
        /\ sp >= entrySp(closing) + 1)
       => /\ pc' = "running"
          /\ sp' = entrySp(closing) + 1
          /\ top(stack', sp')
               = castReturnValue(top(stack, sp), declaredType(closing))]_vars

\* C33: when the end of a block, loop or if with empty result type is
\* reached, by falling through or by a branch that targets it and left
\* values on the stack, the end does not trap and sp equals the sp at entry
\* to the construct, so that the stack up to there is as it was.
C33_EndOfEmptyRestoresSp ==
  [][(EndStep /\ declaredType(closing) = BlockTypeEmpty
        /\ sp >= entrySp(closing))
       => /\ pc' = "running"
          /\ sp' = entrySp(closing)
          /\ \A p \in 1..sp' : top(stack', p) = top(stack, p)]_vars

\* the same for the ends reached with nothing above the entry sp
C33_EndOfEmptyKeepsSp ==
  [][(EndStep /\ declaredType(closing) = BlockTypeEmpty
        /\ sp = entrySp(closing))
       => /\ pc' = "running"
          /\ sp' = entrySp(closing)
          /\ \A p \in 1..sp' : top(stack', p) = top(stack, p)]_vars

\* the next step executes a taken branch to the header of a loop of the
\* current frame
LoopBranchStep ==
  /\ BranchStep
  /\ branchDepth < openBlocks
  /\ enclosing(branchDepth).blockType = typeLoop

\* sp after the operands of the branch at hand were popped
spAfterOperands == IF nextOp = Op.Br THEN sp ELSE sp - 1

\* C34: a taken branch to a loop header restores sp to the value recorded
\* when the loop was entered (the basePointer of its block), so that a loop
\* that branches back with values left on the stack does not grow the value
\* stack from one iteration to the next.
C34_LoopBranchRestoresSp ==
  [][LoopBranchStep => sp' = enclosing(branchDepth).basePointer]_vars

\* the same for the branches taken with nothing left above the sp of the
\* loop's entry
C34_LoopBranchKeepsSp ==
  [][(LoopBranchStep
        /\ spAfterOperands = enclosing(branchDepth).basePointer)
       => sp' = enclosing(branchDepth).basePointer]_vars

(***************************************************************************)
(* C35: the capacities of the value stack, the frames and the blocks.      *)
(***************************************************************************)
WithinCapacities ==
  /\ 0 <= sp
  /\ sp <= StackSize
  /\ framesIndex <= MaxFrames
  /\ blocksIndex <= MaxBlocks

\* f is the index of a local function
IsLocal(f) ==
  f >= Len(functionImports) /\ f < Len(functionImports) + Len(TheModule.Funcs)

\* the next step executes a call of a local function
LocalCallStep == AboutToExecute({Op.Call}) /\ IsLocal(calleeIndex)

\* the next step is an Invoke of a local function with the arguments of its
\* signature
LocalInvokeStep ==
  /\ pc = "idle"
  /\ invokes' = invokes + 1
  /\ IsLocal(invocation'.fidx)
  /\ err' # ErrWrongNumberOfArgs

\* the steps that would exceed a capacity trap with the error of that
\* capacity
OverflowsTrap ==
  /\ (AboutToExecute({Op.I32Const, Op.I64Const}) /\ sp = StackSize)
       => ReturnsError("call stack overflow")'
  /\ (AboutToExecute({Op.Block, Op.Loop, Op.If}) /\ blocksIndex = MaxBlocks)
       => ReturnsError("block stack overflow")'
  /\ (LocalCallStep /\ framesIndex = MaxFrames)
       => ReturnsError("frame stack overflow")'
  /\ (LocalInvokeStep /\ framesIndex = MaxFrames)
       => ReturnsError("frame stack overflow")'

\* C35: in every reachable state 0 <= sp <= StackSize, framesIndex <=
\* MaxFrames and blocksIndex <= MaxBlocks; a push, a block entry or a call
\* that would exceed a capacity, the stack space reserved for the callee's
\* locals included, traps with the stack, block or frame overflow error.
C35_WithinCapacities ==
  /\ []WithinCapacities
  /\ [][/\ OverflowsTrap
        /\ (LocalCallStep /\ framesIndex < MaxFrames
              /\ sp + FuncAt(calleeIndex).NumLocals > StackSize)
             => ReturnsError("call stack overflow")'
        /\ (LocalInvokeStep /\ framesIndex < MaxFrames
              /\ sp + Len(FuncAt(invocation'.fidx).ParamTypes)
                    + FuncAt(invocation'.fidx).NumLocals > StackSize)
             => ReturnsError("call stack overflow")']_vars

\* the same without the space reserved for the locals, for the instances
\* that have not left Invoke by a run-time panic
C35_PushesWithinCapacities ==
  /\ [](pc # "panicked" => WithinCapacities)
  /\ [][OverflowsTrap]_vars

\* the three capacities were reached and the three errors returned
C35_StackFull == sp = StackSize /\ ReturnsError("call stack overflow")

C35_FramesFull == framesIndex = MaxFrames /\ ReturnsError("frame stack overflow")

C35_BlocksFull == blocksIndex = MaxBlocks /\ ReturnsError("block stack overflow")

(***************************************************************************)
(* C36 and C37: the blocks and the break depth of the current frame.       *)
(***************************************************************************)
\* interpret is inside its loop with a current frame
FrameExecuting == pc = "running" /\ framesIndex > 0

\* the next step pops the current frame, which has ended
PopFrameStep ==
  FrameExecuting /\ hasEnded(frames[Len(frames)]) /\ pc' = "running"

\* an end with no block of the current frame open traps, and a popped frame
\* leaves blocksIndex at its baseBlockIndex
CallerBlocksKept ==
  /\ (AboutToExecute({Op.End}) /\ openBlocks = 0)
       => ReturnsError("cannot find matching block open")'
  /\ PopFrameStep => blocksIndex' = frames[Len(frames)].baseBlockIndex

\* C36: while a frame is executing blocksIndex >= its baseBlockIndex; an end
\* that would pop a block of a caller traps with "cannot find matching block
\* open"; when the frame is popped blocksIndex equals its baseBlockIndex.
C36_BlocksAboveFrameBase ==
  /\ [](FrameExecuting => openBlocks >= 0)
  /\ [][CallerBlocksKept]_vars

\* the same for the instances whose invocations all started idle, with no
\* frame and no block left by an earlier one
C36_BlocksAboveFrameBaseFromIdle ==
  /\ []((FrameExecuting /\ invocation.idle) => openBlocks >= 0)
  /\ [][CallerBlocksKept]_vars

\* an end of a callee has trapped on the block of its caller
C36_EndOnCallerBlock ==
  /\ ReturnsError("cannot find matching block open")
  /\ framesIndex > 1
  /\ frames[Len(frames)].baseBlockIndex > 0

\* popFrame resets the break depth
PopFrameResetsBreak == PopFrameStep => breakDepth' = -1

\* C37: in every reachable state breakDepth >= -1, and a breakDepth >= 0 is
\* at most blocksIndex - baseBlockIndex of the current frame; popping a
\* frame resets breakDepth to -1.
C37_BreakDepthInRange ==
  /\ [](breakDepth >= -1)
  /\ []((breakDepth >= 0 /\ framesIndex > 0) => breakDepth <= openBlocks)
  /\ [][PopFrameResetsBreak]_vars

\* the same for the states in which interpret is inside its loop, in an
\* invocation that started with no frame and no block left over
C37_BreakDepthInRangeFromIdle ==
  /\ []((pc = "running" /\ invocation.idle) => breakDepth >= -1)
  /\ []((pc = "running" /\ invocation.idle /\ breakDepth >= 0
            /\ framesIndex > 0)
          => breakDepth <= openBlocks)
  /\ [][PopFrameResetsBreak]_vars

\* a frame that ended while unwinding was popped
C37_PoppedWhileUnwinding == breakDepth >= 0 /\ FrameExecuting /\ hasEnded(frames[Len(frames)])

(***************************************************************************)
(* C38: an instance after an invocation that trapped.                      *)
(***************************************************************************)
\* the last Invoke ended in a trap or in ErrOutOfGas
EndedInTrap ==
  pc = "idle" /\ invokes > 0 /\ err \in ExecErrors \cup {ErrOutOfGas}

\* the values of an instance on which nothing is being invoked
AtIdleValues ==
  sp = 0 /\ framesIndex = 0 /\ blocksIndex = 0 /\ breakDepth = -1

\* the result of the functions of StackModule that take no parameter, call
\* nothing and return a constant: function 6 returns 5, function 9 nothing
constantResult(f) == IF f = 6 THEN W(5) ELSE Zero64

\* an Invoke of function 6 or 9 executes no other function and returns the
\* function's result
ExecutesOnlyInvoked ==
  /\ (pc = "running" /\ framesIndex > 0)
       => (framesIndex = 1 /\ frames[1].fn = invocation.fidx)
  /\ pc = "idle" => (err = NoError /\ ret = constantResult(invocation.fidx))

\* C38: after an Invoke that ends in a trap or in ErrOutOfGas, sp,
\* framesIndex, blocksIndex and breakDepth are 0, 0, 0 and -1, and a
\* following Invoke executes only the function it invokes and returns that
\* function's result.
C38_TrapLeavesInstanceIdle ==
  /\ [](EndedInTrap => AtIdleValues)
  /\ []((Module = StackModule /\ invocation.fidx \in {6, 9})
          => ExecutesOnlyInvoked)

\* the same for the invocations on an instance that is at its idle values:
\* an Invoke that returns without error leaves the instance at them
C38_ReturnLeavesInstanceIdle ==
  /\ []((pc = "idle" /\ invokes > 0 /\ err = NoError /\ invocation.idle)
          => AtIdleValues)
  /\ []((Module = StackModule /\ invocation.fidx \in {6, 9}
           /\ invocation.idle /\ gasPolicy = "free")
          => ExecutesOnlyInvoked)

\* function 6 was invoked after an invocation that returned, and returned 5
C38_SecondInvokeReturns ==
  /\ Module = StackModule
  /\ invokes = 2
  /\ invocation.fidx = 6
  /\ invocation.idle
  /\ pc = "idle"
  /\ ret = W(5)

(***************************************************************************)
(* C39: the 64-bit slot of an i32 value.                                   *)
(***************************************************************************)
\* the upper 32 bits of the word are zero
UpperHalfZero(w) == \A i \in 5..8 : w[i] = 0

\* the opcodes that push an i32 with a conversion from a signed type
SignedI32Pushes == {Op.I32Const, Op.I32Load8S, Op.I32Load16S}

\* the other opcodes that push an i32
UnsignedI32Pushes ==
  {Op.I32Load, Op.I32Load8U, Op.I32Load16U, Op.MemorySize, Op.MemoryGrow,
   Op.I32Eqz} \cup I32Binops

\* the next step executes one of the opcodes and does not trap
PushesI32(ops) == AboutToExecute(ops) /\ pc' = "running"

\* C39: every value pushed by an opcode that produces an i32 (i32.const, the
\* i32 arithmetic and comparisons, the i32 loads with load8_s and load16_s,
\* memory.size, memory.grow) has its upper 32 bits equal to zero.
C39_I32PushedZeroExtended ==
  [][PushesI32(SignedI32Pushes \cup UnsignedI32Pushes)
       => UpperHalfZero(top(stack', sp'))]_vars

\* the same for the opcodes that convert from uint32 or from an unsigned
\* load
C39_UnsignedI32PushedZeroExtended ==
  [][PushesI32(UnsignedI32Pushes) => UpperHalfZero(top(stack', sp'))]_vars

\* an i32 arithmetic opcode has pushed a value with bit 31 set
C39_NegativeResult ==
  /\ pc = "running"
  /\ sp > 0
  /\ top(stack, sp)[4] >= 128
  /\ UpperHalfZero(top(stack, sp))
  /\ framesIndex > 0
  /\ frames[Len(frames)].ip + 1 \in 1..Len(instructions(frames[Len(frames)]))
  /\ instructions(frames[Len(frames)])[frames[Len(frames)].ip + 1] \in I32Binops

(***************************************************************************)
(* C40: the length of a LEB128 encoding.                                   *)
(***************************************************************************)
\* the maximum byte count of an encoding of width maxbit
maxByteCount(maxbit) == (maxbit + 7 - 1) \div 7

\* the bytes of b before the first byte without the continuation bit
continued(b) ==
  IF \E i \in 1..Len(b) : b[i] < 128
  THEN (CHOOSE i \in 1..Len(b) : b[i] < 128 /\ \A j \in 1..(i - 1) : b[j] >= 128) - 1
  ELSE Len(b)

\* a call of the package has returned for a width it accepts
LebReturned == leb.via \in {"slice", "reader"} /\ leb.maxbit <= 64

\* the encoding uses more bytes than the maximum: the bytes up to the
\* maximum all have the continuation bit
TooLong == continued(leb.b) >= maxByteCount(leb.maxbit)

\* the input ends on a byte with the continuation bit
EndsContinued == Len(leb.b) >= 1 /\ continued(leb.b) = Len(leb.b)

\* C40: decoding a LEB128 integer of width maxbit returns an error whenever
\* the encoding uses more bytes than the maximum byte count of the width and
\* whenever the input ends while the continuation bit is set; no value is
\* built from more than the maximum number of bytes.
C40_LebLengthChecked ==
  LebReturned =>
    /\ TooLong => leb.err # NoError
    /\ EndsContinued => leb.err # NoError
    /\ leb.err = NoError => leb.n <= maxByteCount(leb.maxbit)

\* what holds of the length: an error whenever more bytes than the maximum
\* have the continuation bit, no value built from more than the maximum plus
\* one bytes, and an error at the end of a reader
C40_LebLengthCheckedOneByteLate ==
  LebReturned =>
    /\ continued(leb.b) > maxByteCount(leb.maxbit) => leb.err # NoError
    /\ leb.err = NoError => leb.n <= maxByteCount(leb.maxbit) + 1
    /\ (leb.via = "reader" /\ EndsContinued) => leb.err # NoError

\* an encoding of the maximum length was decoded
C40_LongestDecoded ==
  /\ LebReturned
  /\ leb.maxbit = 32
  /\ leb.err = NoError
  /\ leb.n = 5
  /\ leb.val = <<255, 255, 255, 127, 0, 0, 0, 0>>

====
